---- MODULE Spec2Model ----
(***************************************************************************)
(* Model of the branchpro core: the posterior engines of posterior.py      *)
(* (BranchProPosterior, BranchProPosteriorMultSI, LocImpBranchProPosterior,*)
(* LocImpBranchProPosteriorMultSI) and the forward simulator of models.py. *)
(*                                                                         *)
(* Numbers: numpy floats are modelled by exact rationals <<n, d>>, d > 0,  *)
(* kept in lowest terms, so that two equal values are equal tuples.        *)
(* Python attributes that do not exist yet are None (the empty tuple); an  *)
(* attribute holding v is Some(v).                                         *)
(***************************************************************************)
EXTENDS Integers, Sequences, FiniteSets, TLC

\* ------------------------------------------------------------------ bounds
\* Raw incidence rows carry times in 0..MaxTime.
MaxTime == 3
\* run_inference is called with tau in 1..MaxTau.
MaxTau == 2
\* simulate is asked for days in 0..MaxDay.
MaxDay == 3

\* ---------------------------------------------------------------- options
None == <<>>
Some(v) == <<v>>
IsSome(o) == Len(o) = 1
Get(o) == o[1]

\* -------------------------------------------------------------- rationals
Abs(n) == IF n < 0 THEN -n ELSE n

RECURSIVE GCD(_, _)
GCD(a, b) == IF b = 0 THEN a ELSE GCD(b, a % b)

\* n / d in lowest terms, d # 0
Rat(n, d) ==
    LET g == GCD(Abs(n), Abs(d))
        s == IF d < 0 THEN -1 ELSE 1
    IN  <<(s * n) \div g, (s * d) \div g>>

RInt(n) == <<n, 1>>
RAdd(x, y) == Rat(x[1] * y[2] + y[1] * x[2], x[2] * y[2])
RSub(x, y) == Rat(x[1] * y[2] - y[1] * x[2], x[2] * y[2])
RMul(x, y) == Rat(x[1] * y[1], x[2] * y[2])
RDiv(x, y) == Rat(x[1] * y[2], x[2] * y[1])
RLe(x, y) == x[1] * y[2] <= y[1] * x[2]
RLt(x, y) == x[1] * y[2] < y[1] * x[2]
RZero == RInt(0)

\* ------------------------------------------------------- numpy primitives
Min2(a, b) == IF a < b THEN a ELSE b
Max2(a, b) == IF a > b THEN a ELSE b

\* Python s[a:b] on a 0-based array: negative bounds count from the end and
\* both bounds are clamped to the array.
PySlice(s, a, b) ==
    LET n == Len(s)
        lo == Max2(0, Min2(n, IF a < 0 THEN a + n ELSE a))
        hi == Max2(0, Min2(n, IF b < 0 THEN b + n ELSE b))
    IN  IF hi <= lo THEN <<>> ELSE SubSeq(s, lo + 1, hi)

\* s[a:]
PySliceFrom(s, a) == PySlice(s, a, Len(s))
\* s[:b]
PySliceTo(s, b) == PySlice(s, 0, b)

\* s[::-1]
Reverse(s) == [i \in 1..Len(s) |-> s[Len(s) + 1 - i]]

\* np.sum of an integer array
RECURSIVE NpSum(_)
NpSum(s) == IF s = <<>> THEN 0 ELSE s[1] + NpSum(Tail(s))

\* np.sum of an array of rationals
RECURSIVE NpSumRat(_)
NpSumRat(s) == IF s = <<>> THEN RZero ELSE RAdd(s[1], NpSumRat(Tail(s)))

\* a * b broadcasts: equal lengths, or one operand of length 1
Broadcastable(a, b) == Len(a) = Len(b) \/ Len(a) = 1 \/ Len(b) = 1

\* np.sum(a * b) for broadcastable integer arrays
NpSumProduct(a, b) ==
    IF Len(a) = Len(b) THEN NpSum([i \in 1..Len(a) |-> a[i] * b[i]])
    ELSE IF Len(a) = 1 THEN a[1] * NpSum(b)
    ELSE b[1] * NpSum(a)

\* list(range(a, b))
PyRange(a, b) == IF b <= a THEN <<>> ELSE [i \in 1..(b - a) |-> a + i - 1]

\* SortSeq over rationals, ascending (np.percentile sorts each column)
SortRat(s) == SortSeq(s, LAMBDA x, y : RLt(x, y))

\* -------------------------------------------------------- bounded inputs
\* counts of the raw incidence rows
CountValues == {0, 1, 2}
\* daily serial intervals handed to the constructors and setters
SerialIntervals == {<<1>>, <<1, 2>>, <<2, 0, 1>>}
\* collections of candidate serial intervals (rows of one 2-D array)
SerialIntervalLists == {<<<<1, 2>>>>, <<<<1, 2>>, <<2, 1>>>>, <<<<2, 0, 1>>, <<1, 1, 1>>>>}
\* Gamma priors (alpha, beta), both positive
Priors == {<<RInt(1), Rat(1, 5)>>}
\* proportionality constants handed to set_epsilon
Epsilons == {RInt(-1), RInt(0), Rat(1, 2)}
\* central probabilities handed to get_intervals
CentralProbs == {Rat(1, 10), Rat(9, 10)}
\* num_samples handed to the multi-serial-interval run_inference
NumSamples == {1, 2}
\* values a Gamma draw is observed to take
SampleValues == {Rat(1, 2), RInt(4)}

\* initial_r of the simulated models
ReproductionNumbers == {RInt(0), RInt(2)}
\* initial_cond handed to simulate
InitialCounts == {0, 1}
\* counts a Poisson draw of positive mean is observed to take
DrawValues == {0, 2}
\* lengths of the lists of times handed to simulate
TimesLengths == 0..3
\* the days a list of times may name, a negative one included
TimesValues == (-1)..MaxDay
\* the lists of times handed to simulate, in any order, repeats included
TimesArgs == UNION {[1..n -> TimesValues] : n \in TimesLengths}
\* the times argument of simulate: a list, a numpy array or a bare integer
\* (held as its one item)
SimulateArgs ==
    {[kind |-> k, items |-> t] : k \in {"list", "ndarray"}, t \in TimesArgs}
        \cup {[kind |-> "int", items |-> <<1>>]}

\* raw imported tables: no imported case, or one imported case at one time
ImportedTables == {(0 :> 0)} \cup {(t :> 1) : t \in 0..MaxTime}

\* raw (time, count) tables: one row per time of a non-empty set of times
RawTables(counts) ==
    UNION {[T -> counts] : T \in (SUBSET (0..MaxTime)) \ {{}}}

\* ------------------------------------------------------------ the engine
VARIABLES
    variant,              \* the engine's class
    cases_data,           \* padded local counts
    cases_times,          \* their times
    imp_cases_data,       \* padded imported counts (local+imported engines)
    epsilon,              \* (local+imported engines)
    prior_parameters,     \* (alpha, beta)
    _serial_interval,     \* reversed kernel
    _normalizing_const,   \* its sum
    _serial_intervals,    \* reversed candidate kernels (multi engines)
    _normalizing_consts,  \* their sums
    inference_times,
    inference_estimates,
    inference_posterior,  \* frozen Gamma: [shape, rate], one entry per time
    _inference_samples,   \* pooled draws, one row per draw (multi engines)
    drawn_from,           \* per pooled row, the Gamma posterior it was drawn from
    phase,                \* UNINITIALIZED, INFERRED after a run, REINFERRED after more
    last_call,            \* the call the caller made last
    result,               \* what that call returned
    \* the forward simulator
    model,                \* the BranchProModel's attributes
    incidences,           \* simulate's array of daily counts
    sim_call,             \* simulate's arguments
    controller,           \* the SimulationController's attributes
    ctl_call,             \* the last constructor or switch_resolution call
    \* the dashboard
    lock,                 \* app.lock: the callback holding it
    session_data,         \* app.session_data: data_storage and sim_storage
    current_df,           \* app.current_df
    callbacks             \* the fired callbacks: kind, arguments, position

data_vars == <<variant, cases_data, cases_times, imp_cases_data, prior_parameters>>
si_vars == <<_serial_interval, _normalizing_const, _serial_intervals, _normalizing_consts>>
post_vars == <<inference_times, inference_estimates, inference_posterior,
               _inference_samples, drawn_from>>
sim_vars == <<model, incidences, sim_call, controller, ctl_call>>
dash_vars == <<lock, session_data, current_df, callbacks>>
vars == <<data_vars, epsilon, si_vars, post_vars, phase, last_call, result, sim_vars,
         dash_vars>>

Variants == {"BranchProPosterior", "BranchProPosteriorMultSI",
             "LocImpBranchProPosterior", "LocImpBranchProPosteriorMultSI"}
IsMultSI(v) == v \in {"BranchProPosteriorMultSI", "LocImpBranchProPosteriorMultSI"}
IsLocImp(v) == v \in {"LocImpBranchProPosterior", "LocImpBranchProPosteriorMultSI"}

SetMin(S) == CHOOSE x \in S : \A y \in S : x <= y
SetMax(S) == CHOOSE x \in S : \A y \in S : x >= y
SeqMin(s) == SetMin({s[i] : i \in 1..Len(s)})
SeqMax(s) == SetMax({s[i] : i \in 1..Len(s)})

\* the recorded counts alone, in ascending order of time, nothing padded
Reindex_present(raw, lo, hi) ==
    [i \in 1..Cardinality(DOMAIN raw) |->
        raw[CHOOSE t \in DOMAIN raw : Cardinality({u \in DOMAIN raw : u < t}) = i - 1]]

\* inc_data.set_index(time_key).reindex(range(lo, hi+1)).fillna(0)[inc_key]
Reindex(raw, lo, hi) ==
    [i \in 1..(hi - lo + 1) |->
        IF (lo + i - 1) \in DOMAIN raw THEN raw[lo + i - 1] ELSE 0]

\* the imported table padded over its own range of times
PaddedImported_own(imp_raw, lo, hi) ==
    Reindex(imp_raw, SetMin(DOMAIN imp_raw), SetMax(DOMAIN imp_raw))

\* imported_inc_data.set_index(time_key).reindex(range(min(data_times),
\* max(data_times)+1)).fillna(0)[inc_key], data_times being the local times
PaddedImported(imp_raw, lo, hi) == Reindex(imp_raw, lo, hi)

\* np.flip(a, axis=1)
FlipRows(a) == [k \in 1..Len(a) |-> Reverse(a[k])]
\* np.sum(a, axis=1)
SumRows(a) == [k \in 1..Len(a) |-> NpSum(a[k])]

\* the same with the full-history slice starting one entry late
_infectious_individuals_late(si, nc, cases, t) ==
    IF t > Len(si)
    THEN LET start_date == t - Len(si)
         IN  Rat(NpSumProduct(PySlice(cases, start_date, t), si), nc)
    ELSE Rat(NpSumProduct(PySliceTo(cases, t - 1), PySliceFrom(si, -(t - 1))), nc)

\* BranchProPosterior._infectious_individuals, reading the engine's kernel si
\* and normalizing constant nc; t is a 1-based position in cases
_infectious_individuals(si, nc, cases, t) ==
    IF t > Len(si)
    THEN LET start_date == t - Len(si) - 1
         IN  Rat(NpSumProduct(PySlice(cases, start_date, t - 1), si), nc)
    ELSE Rat(NpSumProduct(PySliceTo(cases, t - 1), PySliceFrom(si, -(t - 1))), nc)

\* whether the products of _infectious_individuals broadcast (else ValueError)
InfectiousDefined(si, cases, t) ==
    IF t > Len(si)
    THEN Broadcastable(PySlice(cases, t - Len(si) - 1, t - 1), si)
    ELSE Broadcastable(PySliceTo(cases, t - 1), PySliceFrom(si, -(t - 1)))

\* BranchProPosterior._infectives_in_tau
_infectives_in_tau(si, nc, cases, start, end) ==
    LET times == PyRange(start, end)
    IN  NpSumRat([i \in 1..Len(times) |->
                    _infectious_individuals(si, nc, cases, times[i])])

\* np.divide(shape, rate)
NpDivide(shape, rate) == [i \in 1..Len(shape) |-> RDiv(shape[i], rate[i])]

\* run_inference's shape entry of one window:
\* alpha + np.sum(self.cases_data[(start_window-1):(end_window-1)])
PosteriorShape(cd, alpha, start_window, end_window) ==
    RAdd(alpha, RInt(NpSum(PySlice(cd, start_window - 1, end_window - 1))))

\* the rate entry with the infectives subtracted
PosteriorRate_minus(si, nc, cd, beta, start_window, end_window) ==
    RSub(beta, _infectives_in_tau(si, nc, cd, start_window, end_window))

\* run_inference's rate entry of one window:
\* beta + self._infectives_in_tau(self.cases_data, start_window, end_window)
PosteriorRate(si, nc, cd, beta, start_window, end_window) ==
    RAdd(beta, _infectives_in_tau(si, nc, cd, start_window, end_window))

\* the times starting one step later
InferenceTimes_late(ct, tau) == PyRange(SeqMin(ct) + 2 + tau, SeqMax(ct) + 1)

\* list(range(self.cases_times.min()+1+tau, self.cases_times.max()+1))
InferenceTimes(ct, tau) == PyRange(SeqMin(ct) + 1 + tau, SeqMax(ct) + 1)

\* BranchProPosterior.run_inference: the three attributes it assigns
run_inference(cd, ct, si, nc, prior, tau) ==
    LET total_time == SeqMax(ct) - SeqMin(ct) + 1
        alpha == prior[1]
        beta == prior[2]
        time_init_inf_r == tau + 1
        loop == PyRange(time_init_inf_r + 1, total_time + 1)
        start_window(time) == time - tau
        end_window(time) == time + 1
        shape == [i \in 1..Len(loop) |->
                    PosteriorShape(cd, alpha, start_window(loop[i]), end_window(loop[i]))]
        rate == [i \in 1..Len(loop) |->
                    PosteriorRate(si, nc, cd, beta, start_window(loop[i]),
                                  end_window(loop[i]))]
    IN  [times |-> InferenceTimes(ct, tau),
         estimates |-> NpDivide(shape, rate),
         posterior |-> [shape |-> shape, rate |-> rate]]

\* the shape entry of a window that misses its first day
LocImp_PosteriorShape_short(cd, alpha, start_window, end_window) ==
    RAdd(alpha, RInt(NpSum(PySlice(cd, start_window, end_window - 1))))

\* LocImpBranchProPosterior.run_inference's shape entry of one window
LocImp_PosteriorShape(cd, alpha, start_window, end_window) ==
    RAdd(alpha, RInt(NpSum(PySlice(cd, start_window - 1, end_window - 1))))

\* the rate entry with the imported infectives weighted by epsilon alone
LocImp_PosteriorRate_eps(si, nc, cd, icd, eps, beta, start_window, end_window) ==
    RAdd(RAdd(beta, _infectives_in_tau(si, nc, cd, start_window, end_window)),
         RMul(eps, _infectives_in_tau(si, nc, icd, start_window, end_window)))

\* LocImpBranchProPosterior.run_inference's rate entry of one window:
\* beta + infectives(local) + (1 + self.epsilon) * infectives(imported)
LocImp_PosteriorRate(si, nc, cd, icd, eps, beta, start_window, end_window) ==
    RAdd(RAdd(beta, _infectives_in_tau(si, nc, cd, start_window, end_window)),
         RMul(RAdd(RInt(1), eps),
              _infectives_in_tau(si, nc, icd, start_window, end_window)))

\* LocImpBranchProPosterior.run_inference's inference times
LocImp_InferenceTimes(ct, tau) == PyRange(SeqMin(ct) + 1 + tau, SeqMax(ct) + 1)

\* LocImpBranchProPosterior.run_inference
LocImp_run_inference(cd, icd, eps, ct, si, nc, prior, tau) ==
    LET total_time == SeqMax(ct) - SeqMin(ct) + 1
        alpha == prior[1]
        beta == prior[2]
        time_init_inf_r == tau + 1
        loop == PyRange(time_init_inf_r + 1, total_time + 1)
        start_window(time) == time - tau
        end_window(time) == time + 1
        shape == [i \in 1..Len(loop) |->
                    LocImp_PosteriorShape(cd, alpha, start_window(loop[i]),
                                          end_window(loop[i]))]
        rate == [i \in 1..Len(loop) |->
                    LocImp_PosteriorRate(si, nc, cd, icd, eps, beta,
                                         start_window(loop[i]), end_window(loop[i]))]
    IN  [times |-> LocImp_InferenceTimes(ct, tau),
         estimates |-> NpDivide(shape, rate),
         posterior |-> [shape |-> shape, rate |-> rate]]

\* ------------------------------------------------------------ constructors
\* the caller's last call and what it returned
Call(op, tau, num_samples, p) ==
    [op |-> op, tau |-> tau, num_samples |-> num_samples, central_prob |-> p]
Returned(rows) == [status |-> "ok", rows |-> rows]
Raised == [status |-> "error", rows |-> <<>>]
\* the exception of the named class
RaisedWith(error) == [status |-> "error", rows |-> <<>>, error |-> error]

\* the bound on the callbacks in flight at once
MaxCallbacks == 2

\* IncidenceNumberSimulationApp.__init__: session_data = {'data_storage':
\* None, 'sim_storage': None}; no callback fired yet
NewApp ==
    /\ lock = None
    /\ session_data = [data_storage |-> None, sim_storage |-> None]
    /\ current_df = None
    /\ callbacks = [c \in 1..MaxCallbacks |->
                      [kind |-> "none", pc |-> "idle", path |-> "none", args |-> <<>>]]

\* BranchProPosterior.__init__ and the three subclasses' __init__:
\* raw and imp_raw are the (time, count) tables, serial is one kernel for the
\* single engines and a list of candidate kernels for the multi engines
EngineFields(v, raw, imp_raw, eps, serial, prior) ==
    LET lo == SetMin(DOMAIN raw)
        hi == SetMax(DOMAIN raw)
        first == IF IsMultSI(v) THEN serial[1] ELSE serial
    IN  /\ variant = v
        /\ cases_data = Reindex(raw, lo, hi)
        /\ cases_times = PyRange(lo, hi + 1)
        /\ _serial_interval = Reverse(first)
        /\ _normalizing_const = NpSum(Reverse(first))
        /\ prior_parameters = prior
        /\ imp_cases_data = IF IsLocImp(v) THEN Some(PaddedImported(imp_raw, lo, hi)) ELSE None
        /\ epsilon = IF IsLocImp(v) THEN Some(eps) ELSE None
        /\ _serial_intervals = IF IsMultSI(v) THEN Some(FlipRows(serial)) ELSE None
        /\ _normalizing_consts =
              IF IsMultSI(v) THEN Some(SumRows(FlipRows(serial))) ELSE None
        /\ inference_times = None
        /\ inference_estimates = None
        /\ inference_posterior = None
        /\ _inference_samples = None
        /\ drawn_from = None

\* an engine just constructed, no simulator beside it
JustConstructed ==
    /\ NewApp
    /\ phase = "UNINITIALIZED"
    /\ last_call = Call("__init__", 0, 0, RZero)
    /\ result = Returned(<<>>)
    /\ model = None
    /\ incidences = None
    /\ sim_call = None
    /\ controller = None

Constructed(v, raw, imp_raw, eps, serial, prior) ==
    /\ EngineFields(v, raw, imp_raw, eps, serial, prior)
    /\ JustConstructed
    /\ ctl_call = None

\* the engines whose call sequences are explored: their incidence tables,
SessionTables ==
    { (0 :> 1 @@ 1 :> 2 @@ 2 :> 0 @@ 3 :> 1),
      (1 :> 2 @@ 3 :> 1) }
\* their imported table (its first row lies outside the second local range),
SessionImported == { (0 :> 1 @@ 2 :> 1 @@ 3 :> 1) }
\* their kernels and candidate kernels, also the setters' arguments,
SessionSerialIntervals == {<<1, 2>>, <<2, 0, 1>>}
SessionSerialIntervalLists == {<<<<1, 2>>>>, <<<<2, 0, 1>>, <<1, 1, 1>>>>}
\* their prior and their epsilons, also set_epsilon's arguments
SessionPriors == {<<RInt(1), Rat(1, 5)>>, <<Rat(1, 2), RInt(2)>>}
SessionEpsilons == {RInt(-1), Rat(1, 2)}

Init ==
    \E v \in Variants, raw \in SessionTables, prior \in SessionPriors :
        \E serial \in (IF IsMultSI(v) THEN SessionSerialIntervalLists
                                      ELSE SessionSerialIntervals) :
            IF IsLocImp(v)
            THEN \E imp_raw \in SessionImported, eps \in SessionEpsilons :
                    Constructed(v, raw, imp_raw, eps, serial, prior)
            ELSE Constructed(v, raw, <<>>, RZero, serial, prior)

\* the block with the two sizes exchanged
RvsBlock_transposed(draw, num_samples, T) ==
    [t \in 1..T |-> [j \in 1..num_samples |-> draw[j]]]

\* ------------------------------------------------------------ run_inference
\* gamma.rvs(size=(num_samples, T)): the num_samples rows of one candidate's
\* block; row j holds the drawn value draw[j] at every inference time
RvsBlock(draw, num_samples, T) ==
    [j \in 1..num_samples |-> [t \in 1..T |-> draw[j]]]

RECURSIVE VStack(_)
\* np.vstack(blocks)
VStack(blocks) ==
    IF blocks = <<>> THEN <<>> ELSE Head(blocks) \o VStack(Tail(blocks))

\* every engine delegating to BranchProPosterior.run_inference
CandidateRun_base(v, si, nc, tau) ==
    run_inference(cases_data, cases_times, si, nc, prior_parameters, tau)

\* the per-candidate run the multi engines delegate to: BranchProPosterior's
\* for BranchProPosteriorMultSI (super()), LocImpBranchProPosterior's for
\* LocImpBranchProPosteriorMultSI; the single engines run it on their kernel
CandidateRun(v, si, nc, tau) ==
    IF IsLocImp(v)
    THEN LocImp_run_inference(cases_data, Get(imp_cases_data), Get(epsilon),
                              cases_times, si, nc, prior_parameters, tau)
    ELSE run_inference(cases_data, cases_times, si, nc, prior_parameters, tau)

RECURSIVE CandidateRuns(_, _, _, _)
\* for nc, si in zip(self._normalizing_consts, self._serial_intervals): the
\* run of every candidate, in order
CandidateRuns(v, sis, ncs, tau) ==
    IF sis = <<>> \/ ncs = <<>> THEN <<>>
    ELSE <<CandidateRun(v, Head(sis), Head(ncs), tau)>>
            \o CandidateRuns(v, Tail(sis), Tail(ncs), tau)

\* BranchProPosterior.run_inference / LocImpBranchProPosterior.run_inference
RunSingle(tau) ==
    \E r \in {CandidateRun(variant, _serial_interval, _normalizing_const, tau)} :
        /\ inference_times' = Some(r.times)
        /\ inference_estimates' = Some(r.estimates)
        /\ inference_posterior' = Some(r.posterior)
        /\ last_call' = Call("run_inference", tau, 0, RZero)
        /\ UNCHANGED <<_inference_samples, drawn_from, si_vars>>

\* the pool appended to the pool an earlier run left
SamplePool_accumulating(runs, num_samples, draws) ==
    (IF _inference_samples = None THEN <<>> ELSE Get(_inference_samples))
        \o VStack([k \in 1..Len(runs) |->
                     RvsBlock(draws[k], num_samples, Len(runs[k].posterior.shape))])

\* the pool np.vstack(samples) of the blocks drawn from the candidates' runs
SamplePool(runs, num_samples, draws) ==
    VStack([k \in 1..Len(runs) |->
              RvsBlock(draws[k], num_samples, Len(runs[k].posterior.shape))])

\* BranchProPosteriorMultSI.run_inference /
\* LocImpBranchProPosteriorMultSI.run_inference
RunMultSI(tau) ==
    \E runs \in {CandidateRuns(variant, Get(_serial_intervals),
                               Get(_normalizing_consts), tau)} :
        LET K == Len(runs)
        IN  /\ _serial_interval' = Get(_serial_intervals)[K]
            /\ _normalizing_const' = Get(_normalizing_consts)[K]
            /\ inference_times' = Some(runs[K].times)
            /\ inference_estimates' = Some(runs[K].estimates)
            /\ inference_posterior' = Some(runs[K].posterior)
            /\ UNCHANGED <<_serial_intervals, _normalizing_consts>>
            /\ \E num_samples \in NumSamples :
                  /\ last_call' = Call("run_inference", tau, num_samples, RZero)
                  /\ drawn_from' =
                        Some(VStack([k \in 1..K |->
                                       [j \in 1..num_samples |-> runs[k].posterior]]))
                  /\ \E draws \in [1..K -> [1..num_samples -> SampleValues]] :
                        _inference_samples' = Some(SamplePool(runs, num_samples, draws))

RunInference(tau) ==
    /\ IF IsMultSI(variant) THEN RunMultSI(tau) ELSE RunSingle(tau)
    /\ phase' = IF phase = "UNINITIALIZED" THEN "INFERRED" ELSE "REINFERRED"
    /\ result' = Returned(<<>>)
    /\ UNCHANGED <<dash_vars, data_vars, epsilon, sim_vars>>

\* ------------------------------------------------------------ get_intervals
\* scipy's gamma(shape, scale=1/rate).ppf(q): the q-quantile of that Gamma is
\* kept as the distribution and its level; ppf is increasing in q, so two
\* quantiles of one distribution are ordered as their levels are
GammaPpf(shape, rate, q) == [shape |-> shape, rate |-> rate, level |-> q]
PpfLe(a, b) == a.shape = b.shape /\ a.rate = b.rate /\ RLe(a.level, b.level)

\* the interval with central_prob taken for the mass left in the two tails
GammaInterval_tails(post, central_prob) ==
    LET q1 == RDiv(central_prob, RInt(2))
        q2 == RSub(RInt(1), RDiv(central_prob, RInt(2)))
    IN  <<[i \in 1..Len(post.shape) |-> GammaPpf(post.shape[i], post.rate[i], q1)],
          [i \in 1..Len(post.shape) |-> GammaPpf(post.shape[i], post.rate[i], q2)]>>

\* rv_frozen.interval(central_prob): (ppf((1-p)/2), ppf((1+p)/2)) per time
GammaInterval(post, central_prob) ==
    LET q1 == RDiv(RSub(RInt(1), central_prob), RInt(2))
        q2 == RDiv(RAdd(RInt(1), central_prob), RInt(2))
    IN  <<[i \in 1..Len(post.shape) |-> GammaPpf(post.shape[i], post.rate[i], q1)],
          [i \in 1..Len(post.shape) |-> GammaPpf(post.shape[i], post.rate[i], q2)]>>

\* column t of a pool of rows
Column(pool, t) == [i \in 1..Len(pool) |-> pool[i][t]]
\* number of columns of a non-empty pool
NumColumns(pool) == Len(pool[1])

\* np.mean(pool, axis=0)
NpMeanColumns(pool) ==
    [t \in 1..NumColumns(pool) |->
        RDiv(NpSumRat(Column(pool, t)), RInt(Len(pool)))]

\* np.percentile(col, q) of one column, q in [0, 100]: linear interpolation
\* between the two order statistics around the position (N-1)*q/100
NpPercentile(col, q) ==
    LET x == SortRat(col)
        N == Len(x)
        h == RDiv(RMul(RInt(N - 1), q), RInt(100))
        below == h[1] \div h[2]
        frac == RSub(h, RInt(below))
    IN  IF below + 2 <= N
        THEN RAdd(x[below + 1], RMul(frac, RSub(x[below + 2], x[below + 1])))
        ELSE x[below + 1]

\* np.percentile(pool, q=[lb, ub], axis=0)
NpPercentileColumns(pool, lb, ub) ==
    <<[t \in 1..NumColumns(pool) |-> NpPercentile(Column(pool, t), lb)],
      [t \in 1..NumColumns(pool) |-> NpPercentile(Column(pool, t), ub)]>>

\* pd.DataFrame({...}): one row per time point
IntervalsDf(times, mean, interval, central_prob) ==
    [i \in 1..Len(times) |->
        [time |-> times[i], mean |-> mean[i], lower |-> interval[1][i],
         upper |-> interval[2][i], central_prob |-> central_prob]]

\* the columns handed to pd.DataFrame have one length
ColumnsAligned(times, mean, interval) ==
    /\ Len(times) = Len(mean)
    /\ Len(times) = Len(interval[1])
    /\ Len(times) = Len(interval[2])

InUnitInterval(p) == RLe(RZero, p) /\ RLe(p, RInt(1))

\* get_intervals answering an engine that never ran with an empty frame
get_intervals_unguarded(central_prob) ==
    IF ~InUnitInterval(central_prob)
    THEN result' = Raised /\ UNCHANGED post_vars
    ELSE IF inference_posterior = None
         THEN result' = Returned(<<>>) /\ UNCHANGED post_vars
         ELSE result' = Returned(IntervalsDf(Get(inference_times),
                                    Get(inference_estimates),
                                    GammaInterval(Get(inference_posterior), central_prob),
                                    central_prob))
              /\ UNCHANGED post_vars

\* BranchProPosterior.get_intervals (also LocImpBranchProPosterior's)
get_intervals(central_prob) ==
    IF inference_posterior = None \/ ~InUnitInterval(central_prob)
    THEN result' = Raised /\ UNCHANGED post_vars
    ELSE LET post_dist_interval == GammaInterval(Get(inference_posterior), central_prob)
         IN  IF ColumnsAligned(Get(inference_times), Get(inference_estimates),
                               post_dist_interval)
             THEN /\ result' = Returned(IntervalsDf(Get(inference_times),
                                                    Get(inference_estimates),
                                                    post_dist_interval, central_prob))
                  /\ UNCHANGED post_vars
             ELSE result' = Raised /\ UNCHANGED post_vars

\* the same levels with lower and upper exchanged
PercentileLevels_swapped(central_prob) ==
    <<RDiv(RMul(RInt(100), RAdd(RInt(1), central_prob)), RInt(2)),
      RDiv(RMul(RInt(100), RSub(RInt(1), central_prob)), RInt(2))>>

\* lb = 100*(1 - central_prob)/2 and ub = 100*(1 + central_prob)/2
PercentileLevels(central_prob) ==
    <<RDiv(RMul(RInt(100), RSub(RInt(1), central_prob)), RInt(2)),
      RDiv(RMul(RInt(100), RAdd(RInt(1), central_prob)), RInt(2))>>

\* BranchProPosteriorMultSI.get_intervals (also LocImpBranchProPosteriorMultSI's)
MultSI_get_intervals(central_prob) ==
    IF _inference_samples = None
    THEN result' = Raised /\ UNCHANGED post_vars
    ELSE LET pool == Get(_inference_samples)
             mean == NpMeanColumns(pool)
             lb == PercentileLevels(central_prob)[1]
             ub == PercentileLevels(central_prob)[2]
             valid == /\ RLe(RZero, lb) /\ RLe(lb, RInt(100))
                      /\ RLe(RZero, ub) /\ RLe(ub, RInt(100))
         IN  /\ inference_estimates' = Some(mean)
             /\ UNCHANGED <<inference_times, inference_posterior,
                            _inference_samples, drawn_from>>
             /\ IF valid /\ Len(Get(inference_times)) = NumColumns(pool)
                THEN result' = Returned(IntervalsDf(Get(inference_times), mean,
                                   NpPercentileColumns(pool, lb, ub), central_prob))
                ELSE result' = Raised

GetIntervals(central_prob) ==
    /\ IF IsMultSI(variant)
       THEN MultSI_get_intervals(central_prob)
       ELSE get_intervals(central_prob)
    /\ last_call' = Call("get_intervals", 0, 0, central_prob)
    /\ UNCHANGED <<dash_vars, data_vars, epsilon, si_vars, phase, sim_vars>>

\* ------------------------------------------------------------------ setters
\* An entry of a list that is not a number (a str) is written NaS; np.sum of
\* an array holding one raises TypeError.
NaS == -1000
IsNumeric(a) == \A i \in 1..Len(a) : a[i] # NaS
\* the rows of a nested list have one length, so that np.asarray of it is 2-D
Rectangular(a) == a # <<>> /\ \A k \in 1..Len(a) : Len(a[k]) = Len(a[1])

\* get_serial_intervals: self._serial_interval[::-1], and
\* np.flip(self._serial_intervals, axis=1) for the multi engines
get_serial_intervals ==
    IF IsMultSI(variant) THEN FlipRows(Get(_serial_intervals))
    ELSE Reverse(_serial_interval)

\* the kernel stored as given, not reversed
set_serial_intervals_as_given(serial_intervals, ndim) ==
    IF ndim # 1
    THEN /\ result' = RaisedWith("ValueError")
         /\ UNCHANGED si_vars
    ELSE /\ _serial_interval' = serial_intervals
         /\ UNCHANGED <<_serial_intervals, _normalizing_consts>>
         /\ _normalizing_const' = NpSum(serial_intervals)
         /\ result' = Returned(<<>>)

\* BranchProPosterior.set_serial_intervals (also LocImpBranchProPosterior's);
\* ndim is np.asarray(serial_intervals).ndim
set_serial_intervals(serial_intervals, ndim) ==
    IF ndim # 1
    THEN /\ result' = RaisedWith("ValueError")
         /\ UNCHANGED si_vars
    ELSE /\ _serial_interval' = Reverse(serial_intervals)
         /\ UNCHANGED <<_serial_intervals, _normalizing_consts>>
         /\ IF IsNumeric(serial_intervals)
            THEN /\ _normalizing_const' = NpSum(Reverse(serial_intervals))
                 /\ result' = Returned(<<>>)
            ELSE \* np.sum raises after the kernel was assigned
                 /\ UNCHANGED _normalizing_const
                 /\ result' = RaisedWith("TypeError")

\* BranchProPosteriorMultSI.set_serial_intervals (also the combined engine's);
\* ndim is np.asarray(serial_intervals).ndim for rows of one length
MultSI_set_serial_intervals(serial_intervals, ndim) ==
    IF ndim # 2
    THEN \* a row that is not 1-D, or no row to flip along axis 1
         /\ result' = RaisedWith("ValueError")
         /\ UNCHANGED si_vars
    ELSE IF ~Rectangular(serial_intervals)
    THEN \* np.flip(..., axis=1) of an array that is not 2-D
         /\ result' = RaisedWith("AxisError")
         /\ UNCHANGED si_vars
    ELSE /\ _serial_intervals' = Some(FlipRows(serial_intervals))
         /\ UNCHANGED <<_serial_interval, _normalizing_const>>
         /\ IF \A k \in 1..Len(serial_intervals) : IsNumeric(serial_intervals[k])
            THEN /\ _normalizing_consts' = Some(SumRows(FlipRows(serial_intervals)))
                 /\ result' = Returned(<<>>)
            ELSE \* np.sum raises after the kernels were assigned
                 /\ UNCHANGED _normalizing_consts
                 /\ result' = RaisedWith("TypeError")

SetSerialIntervals(serial_intervals, ndim) ==
    /\ IF IsMultSI(variant)
       THEN MultSI_set_serial_intervals(serial_intervals, ndim)
       ELSE set_serial_intervals(serial_intervals, ndim)
    /\ last_call' = Call("set_serial_intervals", 0, 0, RZero)
    /\ UNCHANGED <<dash_vars, data_vars, epsilon, post_vars, phase, sim_vars>>

\* LocImpBranchProPosterior.set_epsilon with an int or a float
set_epsilon(new_epsilon) ==
    IF RLt(new_epsilon, RInt(-1))
    THEN result' = Raised /\ UNCHANGED epsilon
    ELSE result' = Returned(<<>>) /\ epsilon' = Some(new_epsilon)

\* LocImpBranchProPosterior.set_epsilon with a value that is neither
SetEpsilonNonNumeric ==
    /\ IsLocImp(variant)
    /\ result' = RaisedWith("TypeError")
    /\ last_call' = Call("set_epsilon", 0, 0, RZero)
    /\ UNCHANGED <<dash_vars, data_vars, epsilon, si_vars, post_vars, phase, sim_vars>>

SetEpsilon(new_epsilon) ==
    /\ IsLocImp(variant)
    /\ set_epsilon(new_epsilon)
    /\ last_call' = Call("set_epsilon", 0, 0, RZero)
    /\ UNCHANGED <<dash_vars, data_vars, si_vars, post_vars, phase, sim_vars>>

\* ------------------------------------------------------- forward simulator
\* no posterior engine exists beside the simulator
NoEngine ==
    /\ variant = "none"
    /\ cases_data = <<>>
    /\ cases_times = <<>>
    /\ imp_cases_data = None
    /\ epsilon = None
    /\ prior_parameters = <<>>
    /\ _serial_interval = <<>>
    /\ _normalizing_const = 0
    /\ _serial_intervals = None
    /\ _normalizing_consts = None
    /\ inference_times = None
    /\ inference_estimates = None
    /\ inference_posterior = None
    /\ _inference_samples = None
    /\ drawn_from = None
    /\ phase = "UNINITIALIZED"
    /\ last_call = Call("none", 0, 0, RZero)

\* BranchProModel.__init__ with a list of weights of positive sum and a
\* numeric initial_r
BranchProModel(initial_r, serial_interval) ==
    [_serial_interval |-> Reverse(serial_interval),
     _initial_r |-> initial_r,
     _normalizing_const |-> NpSum(Reverse(serial_interval))]

\* the truncated history weighted by the first entries of the stored kernel
_normalised_daily_mean_head(m, t, inc) ==
    IF t > Len(m._serial_interval)
    THEN LET start_date == t - Len(m._serial_interval)
         IN  RMul(m._initial_r,
                  Rat(NpSumProduct(PySlice(inc, start_date, t), m._serial_interval),
                      m._normalizing_const))
    ELSE RMul(m._initial_r,
              Rat(NpSumProduct(PySliceTo(inc, t), PySliceTo(m._serial_interval, t)),
                  m._normalizing_const))

\* BranchProModel._normalised_daily_mean; inc is the array of the days
\* 0..t-1 drawn so far (later entries are not read)
_normalised_daily_mean(m, t, inc) ==
    IF t > Len(m._serial_interval)
    THEN LET start_date == t - Len(m._serial_interval)
         IN  RMul(m._initial_r,
                  Rat(NpSumProduct(PySlice(inc, start_date, t), m._serial_interval),
                      m._normalizing_const))
    ELSE RMul(m._initial_r,
              Rat(NpSumProduct(PySliceTo(inc, t), PySliceFrom(m._serial_interval, -t)),
                  m._normalizing_const))

\* a sampler that may draw any count at any mean >= 0
PoissonMayDraw_any(lam, k) == lam = RZero \/ RLt(RZero, lam)

\* np.random.poisson(lam): 0 when lam = 0, any count when lam > 0
PoissonMayDraw(lam, k) == IF lam = RZero THEN k = 0 ELSE RLt(RZero, lam)

\* the loop of simulate over simulation_times = 1..last_time_point: draw is
\* the count drawn for each day; the array after the loop
Incidences(initial_cond, draw) == <<initial_cond>> \o draw

\* every day's draw is one its Poisson mean allows
DrawsAllowed(m, initial_cond, draw) ==
    \A t \in 1..Len(draw) :
        PoissonMayDraw(
            _normalised_daily_mean(m, t, SubSeq(Incidences(initial_cond, draw), 1, t)),
            draw[t])

\* incidences[np.in1d(np.append(0, simulation_times), times)]
RECURSIVE Masked(_, _, _)
Masked(inc, times, day) ==
    IF day >= Len(inc) THEN <<>>
    ELSE (IF \E i \in 1..Len(times) : times[i] = day THEN <<inc[day + 1]>> ELSE <<>>)
            \o Masked(inc, times, day + 1)

\* BranchProModel.simulate(parameters, times) on the model m; kind is the
\* Python type of times
simulate(m, parameters, times, kind) ==
    IF kind # "list"
    THEN \* 'Chosen times must be in a list format'
         /\ result' = RaisedWith("TypeError")
         /\ incidences' = None
    ELSE IF times = <<>> \/ SeqMax(times) < -1
    THEN \* np.max of an empty list, np.empty of a negative shape
         /\ result' = RaisedWith("ValueError")
         /\ incidences' = None
    ELSE IF SeqMax(times) = -1
    THEN \* incidences[0] of an empty array
         /\ result' = RaisedWith("IndexError")
         /\ incidences' = None
    ELSE \E draw \in [1..SeqMax(times) -> DrawValues] :
            /\ DrawsAllowed(m, parameters, draw)
            /\ incidences' = Some(Incidences(parameters, draw))
            /\ result' = Returned(Masked(Incidences(parameters, draw), times, 0))

Simulate(parameters, times, kind) ==
    /\ IsSome(model)
    /\ simulate(Get(model), parameters, times, kind)
    /\ sim_call' = Some([parameters |-> parameters, times |-> times, kind |-> kind,
                         caller |-> "user"])
    /\ UNCHANGED <<dash_vars, data_vars, epsilon, si_vars, post_vars, phase, last_call, model,
                   controller, ctl_call>>

InitSim ==
    /\ NoEngine
    /\ NewApp
    /\ \E initial_r \in ReproductionNumbers, serial_interval \in SerialIntervals :
          model = Some(BranchProModel(initial_r, serial_interval))
    /\ incidences = None
    /\ sim_call = None
    /\ controller = None
    /\ ctl_call = None
    /\ result = Returned(<<>>)

\* simulate reads the model and writes nothing of it: one call per model
NextSim ==
    \E parameters \in InitialCounts, arg \in SimulateArgs :
        sim_call = None /\ Simulate(parameters, arg.items, arg.kind)

SpecSim == InitSim /\ [][NextSim]_vars

\* the arguments the dashboard passes to model.set_r_profile(new_rs, start_times)
RProfileArgs ==
    {[new_rs |-> rs, start_times |-> <<0, t1>>] :
        rs \in {<<RInt(2), RInt(0)>>, <<RInt(0), RInt(2)>>}, t1 \in 1..(MaxDay - 1)}

\* model.set_r_profile(new_rs, start_times): BranchProModel defines __init__,
\* _normalised_daily_mean and simulate only, so the attribute lookup raises
\* AttributeError and the model keeps its one _initial_r
SetRProfile(new_rs, start_times) ==
    /\ IsSome(model)
    /\ result' = RaisedWith("AttributeError")
    /\ ctl_call' = Some([op |-> "set_r_profile", new_rs |-> new_rs,
                         start_times |-> start_times])
    /\ UNCHANGED <<dash_vars, data_vars, epsilon, si_vars, post_vars, phase, last_call,
                   model, incidences, sim_call, controller>>

\* the times simulated after a profile was asked for
ProfileSimulateTimes == {PyRange(0, MaxDay + 1), <<MaxDay>>}

NextProfile ==
    \/ \E arg \in RProfileArgs :
          sim_call = None /\ SetRProfile(arg.new_rs, arg.start_times)
    \/ \E parameters \in InitialCounts, times \in ProfileSimulateTimes :
          sim_call = None /\ Simulate(parameters, times, "list")

SpecProfile == InitSim /\ [][NextProfile]_vars

\* ------------------------------------------------------------ specification
\* the single-kernel engines built from every raw table within the bounds
InitInputs ==
    \E v \in {"BranchProPosterior", "LocImpBranchProPosterior"},
       raw \in RawTables(CountValues), prior \in Priors, serial \in SerialIntervals :
        IF IsLocImp(v)
        THEN \E imp_raw \in ImportedTables, eps \in Epsilons :
                Constructed(v, raw, imp_raw, eps, serial, prior)
        ELSE Constructed(v, raw, <<>>, RZero, serial, prior)

\* one run_inference on each fresh engine
NextInputs == \E tau \in 1..MaxTau : phase = "UNINITIALIZED" /\ RunInference(tau)

SpecInputs == InitInputs /\ [][NextInputs]_vars

\* the rows of a dataframe: (time, count) pairs with distinct times, in any
\* order, for each non-empty set of at most n of the times
RECURSIVE Orderings(_)
Orderings(S) ==
    IF S = {} THEN {<<>>}
    ELSE UNION {{<<x>> \o o : o \in Orderings(S \ {x})} : x \in S}

RowSeqs(times, counts, n) ==
    UNION {Orderings(R) :
             R \in UNION {{{<<t, f[t]>> : t \in T} : f \in [T -> counts]} :
                            T \in {U \in SUBSET times : U # {} /\ Cardinality(U) <= n}}}

\* df.set_index(time_key)[inc_key]: the count under each time label
SetIndex(rows) ==
    [t \in {rows[i][1] : i \in 1..Len(rows)} |->
        (CHOOSE r \in {rows[i] : i \in 1..Len(rows)} : r[1] = t)[2]]

\* the engines built from every dataframe of rows within the bounds; the
\* imported rows may lie before, inside and after the local range
InitRows ==
    /\ JustConstructed
    /\ \/ \E rows \in RowSeqs(0..MaxTime, {0, 2}, MaxTime + 1) :
             /\ EngineFields("BranchProPosterior", SetIndex(rows), <<>>, RZero,
                             <<1, 2>>, <<RInt(1), Rat(1, 5)>>)
             /\ ctl_call = Some([op |-> "__init__", inc_data |-> rows,
                                 imported_inc_data |-> <<>>])
       \/ \E rows \in RowSeqs(0..MaxTime, {0, 2}, 2),
             imp_rows \in RowSeqs((-1)..(MaxTime + 1), {1}, 2),
             v \in {"LocImpBranchProPosterior", "LocImpBranchProPosteriorMultSI"} :
             /\ EngineFields(v, SetIndex(rows), SetIndex(imp_rows), Rat(1, 2),
                             IF IsMultSI(v) THEN <<<<1, 2>>>> ELSE <<1, 2>>,
                             <<RInt(1), Rat(1, 5)>>)
             /\ ctl_call = Some([op |-> "__init__", inc_data |-> rows,
                                 imported_inc_data |-> imp_rows])

NextRows == \E tau \in 1..MaxTau : phase = "UNINITIALIZED" /\ RunInference(tau)

SpecRows == InitRows /\ [][NextRows]_vars

Next ==
    \/ \E tau \in 1..MaxTau : RunInference(tau)
    \/ \E central_prob \in CentralProbs : GetIntervals(central_prob)
    \/ \E x \in (IF IsMultSI(variant) THEN SessionSerialIntervalLists
                                      ELSE SessionSerialIntervals) :
          SetSerialIntervals(x, IF IsMultSI(variant) THEN 2 ELSE 1)
    \/ \E e \in SessionEpsilons : SetEpsilon(e)

Spec == Init /\ [][Next]_vars

\* ----------------------------------------- the kernel of engine and simulator
\* a base engine on every raw table within the bounds and, beside it, a
\* simulator with R = 1 and the same serial interval
InitKernel ==
    /\ \E raw \in RawTables(CountValues), serial \in SerialIntervals :
          /\ EngineFields("BranchProPosterior", raw, <<>>, RZero, serial,
                          <<RInt(1), Rat(1, 5)>>)
          /\ model = Some(BranchProModel(RInt(1), serial))
    /\ NewApp
    /\ phase = "UNINITIALIZED"
    /\ last_call = Call("__init__", 0, 0, RZero)
    /\ result = Returned(<<>>)
    /\ incidences = None
    /\ sim_call = None
    /\ controller = None
    /\ ctl_call = None

\* self._infectious_individuals(cases_data, u + 1) of the engine and
\* model._normalised_daily_mean(u, cases_data) of the simulator, on the
\* engine's series, u days after its start
Kernels(u) ==
    /\ u \in 1..Len(cases_data)
    /\ result' = Returned(<<_infectious_individuals(_serial_interval, _normalizing_const,
                                                   cases_data, u + 1),
                            _normalised_daily_mean(Get(model), u, cases_data)>>)
    /\ ctl_call' = Some([op |-> "kernels", u |-> u])
    /\ UNCHANGED <<dash_vars, data_vars, epsilon, si_vars, post_vars, phase, last_call,
                   model, incidences, sim_call, controller>>

NextKernel == \E u \in 1..(MaxTime + 1) : Kernels(u)

SpecKernel == InitKernel /\ [][NextKernel]_vars

\* ------------------------------------------ constructing and controlling
\* Simulation bounds are start <= end in 0..MaxDay; switch_resolution is asked
\* for 0..MaxPoints points.
MaxPoints == 4

\* the serial_interval argument of BranchProModel: a list, a numpy array or a
\* bare number (held as its one item)
SerialIntervalArgs ==
    {[kind |-> k, items |-> x] :
        k \in {"list", "ndarray"}, x \in {<<1>>, <<1, 2>>, <<0>>, <<0, 0>>, <<1, -1>>}}
        \cup {[kind |-> "int", items |-> <<1>>]}
\* the initial_r argument: an int, a float or a str
InitialRArgs ==
    {[kind |-> "int", value |-> RInt(0)], [kind |-> "int", value |-> RInt(2)],
     [kind |-> "float", value |-> Rat(1, 2)], [kind |-> "str", value |-> RInt(0)]}

\* the sum check accepting a sum of 0
BranchProModel__init__zero(initial_r, serial_interval) ==
    IF serial_interval.kind # "list" THEN "TypeError"
    ELSE IF NpSum(serial_interval.items) < 0 THEN "ValueError"
    ELSE IF initial_r.kind \notin {"int", "float"} THEN "TypeError"
    ELSE "ok"

\* the checks of BranchProModel.__init__, in order: how the call ends
BranchProModel__init__(initial_r, serial_interval) ==
    IF serial_interval.kind # "list" THEN "TypeError"
    ELSE IF NpSum(serial_interval.items) <= 0 THEN "ValueError"
    ELSE IF initial_r.kind \notin {"int", "float"} THEN "TypeError"
    ELSE "ok"

\* bp.BranchProModel(initial_r, serial_interval)
NewBranchProModel(initial_r, serial_interval) ==
    /\ model = None
    /\ \E outcome \in {BranchProModel__init__(initial_r, serial_interval)} :
          /\ model' = IF outcome = "ok"
                      THEN Some(BranchProModel(initial_r.value, serial_interval.items))
                      ELSE None
          /\ ctl_call' = Some([op |-> "BranchProModel", initial_r |-> initial_r,
                               serial_interval |-> serial_interval,
                               outcome |-> outcome])
    /\ UNCHANGED <<dash_vars, data_vars, epsilon, si_vars, post_vars, phase, last_call, result,
                   incidences, sim_call, controller>>

\* bp.SimulationController(model, start_sim_time, end_sim_time); class is
\* the class of the object passed as model
NewSimulationController(class, start_sim_time, end_sim_time) ==
    /\ controller = None
    /\ class = "BranchProModel" => IsSome(model)
    /\ IF class = "BranchProModel"
       THEN /\ controller' =
                  Some([model |-> Get(model),
                        _sim_end_points |-> <<start_sim_time, end_sim_time>>,
                        _regime |-> PyRange(start_sim_time, end_sim_time + 1)])
            /\ ctl_call' = Some([op |-> "SimulationController", class |-> class,
                                 bounds |-> <<start_sim_time, end_sim_time>>,
                                 outcome |-> "ok"])
       ELSE /\ controller' = None
            /\ ctl_call' = Some([op |-> "SimulationController", class |-> class,
                                 bounds |-> <<start_sim_time, end_sim_time>>,
                                 outcome |-> "TypeError"])
    /\ UNCHANGED <<dash_vars, data_vars, epsilon, si_vars, post_vars, phase, last_call, result,
                   model, incidences, sim_call>>

\* np.rint towards the lower neighbour always
Rint_floor(x) == x[1] \div x[2]

\* np.rint(x): the nearest integer, the even neighbour on a tie
Rint(x) ==
    LET below == x[1] \div x[2]
        frac == RSub(x, RInt(below))
    IN  IF RLt(frac, Rat(1, 2)) THEN below
        ELSE IF RLt(Rat(1, 2), frac) THEN below + 1
        ELSE IF below % 2 = 0 THEN below ELSE below + 1

\* np.linspace(start, stop, num): num evenly spaced values, both ends included
Linspace(start, stop, num) ==
    [i \in 1..num |->
        IF num = 1 THEN RInt(start)
        ELSE RAdd(RInt(start), Rat((i - 1) * (stop - start), num - 1))]

\* SimulationController.switch_resolution
SwitchResolution(num_points) ==
    /\ IsSome(controller)
    /\ LET c == Get(controller)
           line == Linspace(c._sim_end_points[1], c._sim_end_points[2], num_points)
       IN  controller' =
              Some([c EXCEPT !._regime = [i \in 1..num_points |-> Rint(line[i])]])
    /\ ctl_call' = Some([op |-> "switch_resolution", num_points |-> num_points,
                         bounds |-> Get(ctl_call).bounds, outcome |-> "ok"])
    /\ UNCHANGED <<dash_vars, data_vars, epsilon, si_vars, post_vars, phase, last_call, result,
                   model, incidences, sim_call>>

\* SimulationController.run: self.model.simulate(parameters, self._regime),
\* the regime being a numpy array
Run(parameters) ==
    /\ IsSome(controller)
    /\ simulate(Get(controller).model, parameters, Get(controller)._regime, "ndarray")
    /\ sim_call' = Some([parameters |-> parameters, times |-> Get(controller)._regime,
                         kind |-> "ndarray", caller |-> "SimulationController.run"])
    /\ UNCHANGED <<dash_vars, data_vars, epsilon, si_vars, post_vars, phase, last_call, model,
                   controller, ctl_call>>

InitCtl ==
    /\ NoEngine
    /\ NewApp
    /\ model = None
    /\ incidences = None
    /\ sim_call = None
    /\ controller = None
    /\ ctl_call = None
    /\ result = Returned(<<>>)

\* the times arguments of the direct simulate calls made beside the controller
DirectSimulateArgs ==
    {[kind |-> "list", items |-> <<0, 2>>], [kind |-> "ndarray", items |-> <<0, 2>>],
     [kind |-> "ndarray", items |-> <<2>>], [kind |-> "int", items |-> <<1>>]}

NextCtl ==
    \/ \E initial_r \in InitialRArgs, serial_interval \in SerialIntervalArgs :
          NewBranchProModel(initial_r, serial_interval)
    \/ \E class \in {"BranchProModel", "int"}, start \in 0..MaxDay, end \in 0..MaxDay :
          start <= end /\ NewSimulationController(class, start, end)
    \/ \E num_points \in 0..MaxPoints : SwitchResolution(num_points)
    \/ \E parameters \in InitialCounts : Run(parameters)
    \/ \E parameters \in InitialCounts, arg \in DirectSimulateArgs :
          Simulate(parameters, arg.items, arg.kind)

SpecCtl == InitCtl /\ [][NextCtl]_vars

\* ------------------------------------------------------------ the dashboard
\* The callbacks of simulation_dash_app.py, fired concurrently by the server;
\* each is at "idle" (not fired, or returned), "fired" (before its with
\* statement) or inside the with block.
not_engine_vars == <<data_vars, epsilon, si_vars, post_vars, phase, last_call, result,
                     sim_vars>>

CallbackKinds == {"load_data", "update_slider_ranges", "update_figure", "run_simulation"}

\* the arguments Dash passes to a callback of each kind
CallbackArgs(kind) ==
    IF kind = "load_data"
    THEN {[contents |-> x] : x \in {"none", "unreadable", "readable"}}
    ELSE IF kind = "update_slider_ranges"
    THEN {[data |-> "uploaded"]}
    ELSE IF kind = "update_figure"
    THEN {[data |-> "uploaded", sim_columns |-> 2, source |-> "data_storage", traces |-> 2],
          [data |-> "uploaded", sim_columns |-> 2, source |-> "sim_storage", traces |-> 3],
          [data |-> "uploaded", sim_columns |-> 2, source |-> "sim_storage", traces |-> 2],
          [data |-> "uploaded", sim_columns |-> 3, source |-> "sim_storage", traces |-> 2]}
    ELSE {[data |-> "uploaded", sim_columns |-> 2, source |-> "sim-button"],
          [data |-> "uploaded", sim_columns |-> 3, source |-> "r0"]}

At(c, kind, pc) == callbacks[c].kind = kind /\ callbacks[c].pc = pc

Goto(c, pc) == callbacks' = [callbacks EXCEPT ![c].pc = pc]

\* the server calls the callback
Fire(c, kind, args) ==
    /\ callbacks[c].pc = "idle"
    /\ callbacks' = [callbacks EXCEPT ![c] =
                        [kind |-> kind, pc |-> "fired", path |-> "none", args |-> args]]
    /\ UNCHANGED <<lock, session_data, current_df, not_engine_vars>>

\* app.lock is taken: it is free, and c holds it from now on
Acquired(c) == lock = None /\ lock' = Some(c)

\* app.lock is given back
Released(c) == lock' = None

\* the with statement entered without taking the lock
Enter_unlocked(c) ==
    /\ callbacks[c].pc = "fired"
    /\ UNCHANGED lock
    /\ Goto(c, "locked")
    /\ UNCHANGED <<session_data, current_df, not_engine_vars>>

\* with app.lock: the callback blocks until it holds the lock
Enter(c) ==
    /\ callbacks[c].pc = "fired"
    /\ Acquired(c)
    /\ Goto(c, "locked")
    /\ UNCHANGED <<session_data, current_df, not_engine_vars>>

\* the with block is left, by a return statement or by an exception
Exit(c, path) ==
    /\ Released(c)
    /\ callbacks' = [callbacks EXCEPT ![c].pc = "idle", ![c].path = path]

\* load_data inside its with block: without contents it returns the default
\* data; otherwise app.parse_contents, which sets app.current_df
LoadData(c) ==
    /\ At(c, "load_data", "locked")
    /\ IF callbacks[c].args.contents = "none"
       THEN Exit(c, "default data") /\ UNCHANGED current_df
       ELSE /\ current_df' = IF callbacks[c].args.contents = "readable"
                             THEN Some("uploaded") ELSE None
            /\ Goto(c, "parsed")
            /\ UNCHANGED lock
    /\ UNCHANGED <<session_data, not_engine_vars>>

\* load_data after parse_contents: return message, dash.no_update when no
\* data was read, else return message, data
LoadDataReturn(c) ==
    /\ At(c, "load_data", "parsed")
    /\ Exit(c, IF current_df = None THEN "no_update" ELSE "data")
    /\ UNCHANGED <<session_data, current_df, not_engine_vars>>

\* app.refresh_user_data_json(data_storage=..., sim_storage=...): the
\* storages the browser sent become the session data
refresh_user_data_json(c) ==
    session_data' =
        [data_storage |-> Some(callbacks[c].args.data),
         sim_storage |-> IF callbacks[c].kind = "update_slider_ranges"
                         THEN session_data.sim_storage
                         ELSE Some(callbacks[c].args.sim_columns)]

\* the first statement of the with block of update_slider_ranges,
\* update_figure and run_simulation
Refresh(c) ==
    /\ callbacks[c].kind \in {"update_slider_ranges", "update_figure", "run_simulation"}
    /\ callbacks[c].pc = "locked"
    /\ refresh_user_data_json(c)
    /\ Goto(c, "refreshed")
    /\ UNCHANGED <<lock, current_df, not_engine_vars>>

\* update_slider_ranges: return app.update_sliders(), which reads
\* session_data['data_storage']
UpdateSliderRangesReturn(c) ==
    /\ At(c, "update_slider_ranges", "refreshed")
    /\ Exit(c, IF session_data.data_storage = None THEN "default sliders"
               ELSE "data sliders")
    /\ UNCHANGED <<session_data, current_df, not_engine_vars>>

\* update_figure: the three return statements of its with block
UpdateFigureReturn(c) ==
    /\ At(c, "update_figure", "refreshed")
    /\ LET args == callbacks[c].args
           columns == Get(session_data.sim_storage)
       IN  Exit(c, IF args.source = "data_storage" \/ (args.traces > 2 /\ columns = 2)
                   THEN "update_figure"
                   ELSE IF args.traces = 2 /\ columns = 2
                   THEN "update_figure_change_values"
                   ELSE "update_figure_add_simulation")
    /\ UNCHANGED <<session_data, current_df, not_engine_vars>>

\* run_simulation: app.clear_simulations() unless the button was clicked; it
\* reads app.current_df and attributes add_data may not have set yet, so it
\* returns or raises
RunSimulationClear(c) ==
    /\ At(c, "run_simulation", "refreshed")
    /\ callbacks[c].args.source # "sim-button"
    /\ \/ Goto(c, "cleared") /\ UNCHANGED lock
       \/ Exit(c, "raised in clear_simulations")
    /\ UNCHANGED <<session_data, current_df, not_engine_vars>>

\* run_simulation: return app.update_simulation(...).to_json();
\* update_simulation builds BranchProModel(new_r0, np.array([1, 2, 3, 2, 1]))
\* and adds a column to session_data['sim_storage'] when that succeeds
RunSimulationUpdate(c) ==
    /\ \/ At(c, "run_simulation", "cleared")
       \/ At(c, "run_simulation", "refreshed") /\ callbacks[c].args.source = "sim-button"
    /\ IF BranchProModel__init__([kind |-> "float", value |-> Rat(1, 2)],
                                 [kind |-> "ndarray", items |-> <<1, 2, 3, 2, 1>>]) = "ok"
       THEN /\ session_data' = [session_data EXCEPT
                                   !.sim_storage = Some(Get(session_data.sim_storage) + 1)]
            /\ Exit(c, "simulated")
       ELSE /\ UNCHANGED session_data
            /\ Exit(c, "raised in update_simulation")
    /\ UNCHANGED <<current_df, not_engine_vars>>

InitDash ==
    /\ NoEngine
    /\ NewApp
    /\ model = None
    /\ incidences = None
    /\ sim_call = None
    /\ controller = None
    /\ ctl_call = None
    /\ result = Returned(<<>>)

NextDash ==
    \E c \in 1..MaxCallbacks :
        \/ \E kind \in CallbackKinds : \E args \in CallbackArgs(kind) : Fire(c, kind, args)
        \/ Enter(c)
        \/ LoadData(c)
        \/ LoadDataReturn(c)
        \/ Refresh(c)
        \/ UpdateSliderRangesReturn(c)
        \/ UpdateFigureReturn(c)
        \/ RunSimulationClear(c)
        \/ RunSimulationUpdate(c)

SpecDash == InitDash /\ [][NextDash]_vars

\* ------------------------------------- calls outside the documented domain
\* run_inference(tau) with a float tau: range() raises TypeError; a multi
\* engine has by then made its first candidate the current kernel
RunInferenceFloat(tau) ==
    /\ IF IsMultSI(variant)
       THEN /\ _serial_interval' = Get(_serial_intervals)[1]
            /\ _normalizing_const' = Get(_normalizing_consts)[1]
            /\ UNCHANGED <<_serial_intervals, _normalizing_consts>>
       ELSE UNCHANGED si_vars
    /\ result' = RaisedWith("TypeError")
    /\ last_call' = Call("run_inference(float)", tau, 0, RZero)
    /\ UNCHANGED <<dash_vars, data_vars, epsilon, post_vars, phase, sim_vars>>

\* tau below 1 and tau beyond every span
OutOfRangeTaus == {-1, 0, MaxTime + 1}
\* central_prob at and beyond the ends of (0, 1), and one inside
ProbeCentralProbs == {Rat(-1, 2), RInt(0), Rat(1, 2), RInt(1), Rat(3, 2)}
ProbeEpsilons == {RInt(-2), Rat(-3, 2), RInt(-1)}
\* flat lists: a kernel, a kernel of sum 0, no weight at all, strs
ProbeKernels == {<<1, 2>>, <<0, 0>>, <<>>, <<NaS, NaS>>}
\* nested lists: candidates, rows of two lengths, rows of strs
ProbeKernelLists ==
    {<<<<1, 2>>, <<2, 1>>>>, <<<<0, 0>>>>, <<<<1, 2>>, <<1>>>>, <<<<NaS, 1>>>>}

\* the engine has been constructed and at most run once with tau = 1
Probeable ==
    \/ last_call.op = "__init__"
    \/ last_call.op = "run_inference" /\ last_call.tau = 1

\* one call with arguments of any kind on an engine that is fresh or has run
NextArgs ==
    \/ last_call.op = "__init__" /\ RunInference(1)
    \/ \E tau \in OutOfRangeTaus : Probeable /\ RunInference(tau)
    \/ \E tau \in 1..MaxTau : Probeable /\ RunInferenceFloat(tau)
    \/ \E central_prob \in ProbeCentralProbs : Probeable /\ GetIntervals(central_prob)
    \/ \E e \in ProbeEpsilons : Probeable /\ SetEpsilon(e)
    \/ Probeable /\ SetEpsilonNonNumeric
    \/ \E x \in ProbeKernels : Probeable /\ SetSerialIntervals(x, 1)
    \/ \E x \in ProbeKernelLists : Probeable /\ SetSerialIntervals(x, 2)

SpecArgs == Init /\ [][NextArgs]_vars

\* ------------------------------------------------- what the claims refer to
\* The observed series and the kernel as the specification writes them: I(v)
\* is the count at time v, 0 before the series starts; SI[s] is the weight of
\* lag s, as get_serial_intervals returns it.
series_start == cases_times[1]
series_end == cases_times[Len(cases_times)]

RECURSIVE SumInts(_, _)
\* the sum of f over the finite set S
SumInts(f, S) ==
    IF S = {} THEN 0
    ELSE LET x == CHOOSE y \in S : TRUE IN f[x] + SumInts(f, S \ {x})

ObservedAt(series, v) == IF v < series_start THEN 0 ELSE series[v - series_start + 1]

\* sum of the observed counts over the window [t - tau, t]
WindowSum(series, t, tau) ==
    SumInts([u \in (t - tau)..t |-> ObservedAt(series, u)], (t - tau)..t)

\* Lambda_t = sum over u in [t - tau, t] of sum_{s=1..L} SI[s]*I(u-s) / sum(SI)
Lambda(series, SI, t, tau) ==
    Rat(SumInts([u \in (t - tau)..t |->
                    SumInts([s \in 1..Len(SI) |-> SI[s] * ObservedAt(series, u - s)],
                            1..Len(SI))],
                (t - tau)..t),
        SumInts(SI, 1..Len(SI)))

prior_alpha == prior_parameters[1]
prior_beta == prior_parameters[2]

\* the conjugate posterior of the specification for kernel SI and window tau,
\* one entry for each time series_start + tau + 1, ..., series_end
ConjugatePosterior(SI, tau) ==
    LET n == Max2(0, series_end - series_start - tau)
        t(i) == series_start + tau + i
    IN  [shape |-> [i \in 1..n |-> RAdd(prior_alpha, RInt(WindowSum(cases_data, t(i), tau)))],
         rate |-> [i \in 1..n |->
                     RAdd(RAdd(prior_beta, Lambda(cases_data, SI, t(i), tau)),
                          IF IsLocImp(variant)
                          THEN RMul(RAdd(RInt(1), Get(epsilon)),
                                    Lambda(Get(imp_cases_data), SI, t(i), tau))
                          ELSE RZero)]]

JustRan == last_call.op = "run_inference"
GotIntervals == last_call.op = "get_intervals" /\ result.status = "ok"
ValidTau == 1 <= last_call.tau /\ last_call.tau <= series_end - series_start

\* ------------------------------------------------------------------ claims
\* C1 as stated: for every valid tau, run_inference sets the inference times
\* to the consecutive integers series_start + tau + 2, ..., series_end, that
\* is (series_end - series_start) - tau - 1 of them.
C1_TimesFromTauPlus2 ==
    (JustRan /\ ValidTau) =>
        LET times == Get(inference_times)
        IN  /\ Len(times) = (series_end - series_start) - last_call.tau - 1
            /\ \A i \in 1..Len(times) : times[i] = series_start + last_call.tau + 1 + i

\* C1 amended: for every valid tau, run_inference sets the inference times to
\* the consecutive integers series_start + tau + 1, ..., series_end, that is
\* (series_end - series_start) - tau of them.
C1_TimesFromTauPlus1 ==
    (JustRan /\ ValidTau) =>
        LET times == Get(inference_times)
        IN  /\ Len(times) = (series_end - series_start) - last_call.tau
            /\ \A i \in 1..Len(times) : times[i] = series_start + last_call.tau + i

C1_Witness ==
    /\ JustRan /\ ValidTau
    /\ Len(Get(inference_times)) >= 2

\* C2: after run_inference(tau) on the base engine the i-th stored posterior
\* belongs to the i-th inference time t: shape = alpha + the sum of the counts
\* over [t - tau, t], rate = beta + Lambda_t with I(v) = 0 before the start.
C2_ConjugateUpdate ==
    (JustRan /\ variant = "BranchProPosterior") =>
        LET times == Get(inference_times)
            post == Get(inference_posterior)
            SI == Reverse(_serial_interval)
        IN  /\ Len(post.shape) = Len(times)
            /\ Len(post.rate) = Len(times)
            /\ \A i \in 1..Len(times) :
                  /\ post.shape[i] =
                        RAdd(prior_alpha, RInt(WindowSum(cases_data, times[i], last_call.tau)))
                  /\ post.rate[i] =
                        RAdd(prior_beta, Lambda(cases_data, SI, times[i], last_call.tau))

C2_Witness ==
    /\ JustRan /\ variant = "BranchProPosterior"
    /\ Len(Get(inference_times)) >= 2
    /\ Len(_serial_interval) = 3
    /\ \E i \in 1..2 : RLt(prior_beta, Get(inference_posterior).rate[i])

Positive(post) ==
    \A i \in 1..Len(post.shape) : RLt(RZero, post.shape[i]) /\ RLt(RZero, post.rate[i])

NonNegative(seq) == \A i \in 1..Len(seq) : seq[i] >= 0

\* alpha > 0, beta > 0, non-negative counts, non-negative weights of positive
\* sum, epsilon >= -1
C3_Given ==
    /\ RLt(RZero, prior_alpha) /\ RLt(RZero, prior_beta)
    /\ NonNegative(cases_data)
    /\ NonNegative(_serial_interval) /\ _normalizing_const > 0
    /\ IsMultSI(variant) =>
          \A k \in 1..Len(Get(_serial_intervals)) :
              NonNegative(Get(_serial_intervals)[k]) /\ Get(_normalizing_consts)[k] > 0
    /\ IsLocImp(variant) =>
          NonNegative(Get(imp_cases_data)) /\ RLe(RInt(-1), Get(epsilon))

\* C3: given alpha > 0, beta > 0, non-negative counts and non-negative weights
\* of positive sum, every shape and every rate run_inference produced is
\* strictly positive, for every engine variant (epsilon >= -1 for the
\* local+imported ones); for the multi engines this covers the posterior of
\* every candidate the pool was drawn from.
C3_PositiveParameters ==
    C3_Given =>
        /\ IsSome(inference_posterior) => Positive(Get(inference_posterior))
        /\ IsSome(drawn_from) =>
              \A r \in 1..Len(Get(drawn_from)) : Positive(Get(drawn_from)[r])

C3_Witness ==
    /\ JustRan
    /\ variant = "LocImpBranchProPosteriorMultSI"
    /\ Get(epsilon) = RInt(-1)
    /\ Len(Get(inference_posterior).shape) >= 2
    /\ Len(Get(drawn_from)) >= 2

\* C4: on every engine variant get_intervals called before any run_inference
\* fails with an error, returns no rows and leaves the engine uninitialised
\* (no inference times, estimates, posterior or samples); after at least one
\* run_inference it succeeds, with one row per inference time.
C4_IntervalsNeedRun ==
    (last_call.op = "get_intervals") =>
        IF phase = "UNINITIALIZED"
        THEN /\ result = Raised
             /\ inference_times = None
             /\ inference_estimates = None
             /\ inference_posterior = None
             /\ _inference_samples = None
        ELSE /\ result.status = "ok"
             /\ Len(result.rows) = Len(Get(inference_times))

C4_Witness ==
    /\ last_call.op = "get_intervals"
    /\ phase = "UNINITIALIZED"
    /\ result = Raised

C4_WitnessAfterRun ==
    /\ last_call.op = "get_intervals"
    /\ phase = "REINFERRED"
    /\ Len(result.rows) >= 2

\* the candidate kernels of a multi engine, as get_serial_intervals returns them
Candidates == FlipRows(Get(_serial_intervals))

\* C5: after any sequence of run_inference and setter calls the stored
\* inference times, estimates and posterior are what a fresh engine with the
\* current serial interval(s), prior and data produces for the last call's
\* tau; a multi engine's pool holds exactly num_samples rows per candidate,
\* each drawn from that candidate's fresh posterior, and nothing of an
\* earlier run.
C5_RunReplacesState ==
    JustRan =>
        LET tau == last_call.tau
            n == Max2(0, series_end - series_start - tau)
            fresh == IF IsMultSI(variant)
                     THEN ConjugatePosterior(Candidates[Len(Candidates)], tau)
                     ELSE ConjugatePosterior(Reverse(_serial_interval), tau)
        IN  /\ Get(inference_times) = [i \in 1..n |-> series_start + tau + i]
            /\ Get(inference_posterior) = fresh
            /\ Get(inference_estimates) =
                  [i \in 1..n |-> RDiv(fresh.shape[i], fresh.rate[i])]
            /\ IF IsMultSI(variant)
               THEN LET pool == Get(_inference_samples)
                        from == Get(drawn_from)
                        num_samples == last_call.num_samples
                    IN  /\ Len(pool) = Len(Candidates) * num_samples
                        /\ Len(from) = Len(pool)
                        /\ \A r \in 1..Len(pool) :
                              /\ Len(pool[r]) = n
                              /\ from[r] =
                                    ConjugatePosterior(
                                        Candidates[((r - 1) \div num_samples) + 1], tau)
               ELSE _inference_samples = None

C5_Witness ==
    /\ JustRan
    /\ phase = "REINFERRED"
    /\ IsMultSI(variant)
    /\ Len(Candidates) = 2
    /\ Len(Get(_inference_samples)) = 4
    /\ Len(Get(inference_times)) >= 2

\* the samples of the pool at the i-th inference time
PoolColumn(i) == Column(Get(_inference_samples), i)
ColumnMin(col) == CHOOSE x \in {col[j] : j \in 1..Len(col)} :
                      \A j \in 1..Len(col) : RLe(x, col[j])
ColumnMax(col) == CHOOSE x \in {col[j] : j \in 1..Len(col)} :
                      \A j \in 1..Len(col) : RLe(col[j], x)

\* C6 as stated: every row get_intervals(p) returns has lower <= mean <= upper.
\* (Stated on the pooled-sample engines, whose rows are numbers; a Gamma row
\* holds its two quantiles by level.)
C6_MeanInsideInterval ==
    (GotIntervals /\ IsMultSI(variant)) =>
        \A i \in 1..Len(result.rows) :
            /\ RLe(result.rows[i].lower, result.rows[i].mean)
            /\ RLe(result.rows[i].mean, result.rows[i].upper)

\* C6 amended: every row get_intervals(p) returns has lower <= upper; on the
\* pooled-sample engines lower, mean and upper all lie between the smallest
\* and the largest sample of that inference time, and on the Gamma engines
\* mean = shape_t / rate_t of the Gamma whose quantiles the bounds are.
C6_LowerBelowUpper ==
    GotIntervals =>
        \A i \in 1..Len(result.rows) :
            LET row == result.rows[i]
            IN  IF IsMultSI(variant)
                THEN LET lo == ColumnMin(PoolColumn(i))
                         hi == ColumnMax(PoolColumn(i))
                     IN  /\ RLe(row.lower, row.upper)
                         /\ RLe(lo, row.lower) /\ RLe(row.upper, hi)
                         /\ RLe(lo, row.mean) /\ RLe(row.mean, hi)
                ELSE /\ PpfLe(row.lower, row.upper)
                     /\ row.mean = RDiv(row.lower.shape, row.lower.rate)

\* a pooled row whose mean lies above its upper bound
C6_Witness ==
    /\ GotIntervals /\ IsMultSI(variant)
    /\ Len(result.rows) >= 2
    /\ \E i \in 1..Len(result.rows) : RLt(result.rows[i].upper, result.rows[i].mean)

\* the k-th smallest entry of col, k in 1..Len(col)
OrderStatistic(col, k) ==
    CHOOSE v \in {col[j] : j \in 1..Len(col)} :
        /\ Cardinality({j \in 1..Len(col) : RLt(col[j], v)}) < k
        /\ Cardinality({j \in 1..Len(col) : RLe(col[j], v)}) >= k

\* the q-th percentile (q in [0, 100]) of col by linear interpolation between
\* closest ranks
Percentile(col, q) ==
    LET pos == RDiv(RMul(RInt(Len(col) - 1), q), RInt(100))
        k == pos[1] \div pos[2]
        weight == RSub(pos, RInt(k))
    IN  IF weight = RZero THEN OrderStatistic(col, k + 1)
        ELSE RAdd(RMul(RSub(RInt(1), weight), OrderStatistic(col, k + 1)),
                  RMul(weight, OrderStatistic(col, k + 2)))

RowLe(a, b) == IF IsMultSI(variant) THEN RLe(a, b) ELSE PpfLe(a, b)

\* rows b are an interval at least as wide as rows a at every time
Nested(a, b) ==
    /\ Len(a) = Len(b)
    /\ \A i \in 1..Len(a) :
          /\ a[i].time = b[i].time
          /\ RowLe(b[i].lower, a[i].lower)
          /\ RowLe(a[i].upper, b[i].upper)

\* two successful get_intervals calls in a row, on one posterior state
C7_TwoCalls ==
    /\ GotIntervals
    /\ last_call'.op = "get_intervals" /\ result'.status = "ok"
    /\ inference_posterior' = inference_posterior
    /\ _inference_samples' = _inference_samples

C7_Step ==
    C7_TwoCalls =>
        LET p1 == last_call.central_prob
            p2 == last_call'.central_prob
        IN  /\ RLe(p1, p2) => Nested(result.rows, result'.rows)
            /\ RLe(p2, p1) => Nested(result'.rows, result.rows)
            /\ IsMultSI(variant) =>
                  \A i \in 1..Len(result'.rows) :
                      /\ result'.rows[i].lower =
                            Percentile(PoolColumn(i),
                                RDiv(RMul(RInt(100), RSub(RInt(1), p2)), RInt(2)))
                      /\ result'.rows[i].upper =
                            Percentile(PoolColumn(i),
                                RDiv(RMul(RInt(100), RAdd(RInt(1), p2)), RInt(2)))

\* C7: for every engine variant and inference time, get_intervals(p2) called
\* on the posterior state get_intervals(p1) was called on has, when p1 <= p2,
\* a lower bound <= and an upper bound >= that of get_intervals(p1); on the
\* multi-serial-interval engines lower is the 100*(1-p)/2 and upper the
\* 100*(1+p)/2 percentile of the pooled samples.
C7_WidthMonotone == [][C7_Step]_vars

\* a pooled interval at p = 9/10 strictly wider at both ends than the one the
\* same pool gives at p = 1/10
C7_Witness ==
    /\ GotIntervals /\ IsMultSI(variant)
    /\ last_call.central_prob = Rat(9, 10)
    /\ \E i \in 1..Len(result.rows) :
          /\ RLt(result.rows[i].lower,
                 Percentile(PoolColumn(i), PercentileLevels(Rat(1, 10))[1]))
          /\ RLt(Percentile(PoolColumn(i), PercentileLevels(Rat(1, 10))[2]),
                 result.rows[i].upper)

\* the imported series is zero at every time and epsilon = 0
C8_Given ==
    /\ variant = "LocImpBranchProPosterior"
    /\ Get(epsilon) = RZero
    /\ \A i \in 1..Len(Get(imp_cases_data)) : Get(imp_cases_data)[i] = 0

\* C8: a local+imported engine with epsilon = 0 and an imported series that
\* is zero at every time has, after run_inference(tau), the inference times,
\* shapes, rates and estimates the base engine's run_inference(tau) gives on
\* the local series with the same serial interval and prior.
C8_ReducesToBase ==
    (JustRan /\ C8_Given) =>
        LET base == run_inference(cases_data, cases_times, _serial_interval,
                                  _normalizing_const, prior_parameters, last_call.tau)
        IN  /\ Get(inference_times) = base.times
            /\ Get(inference_posterior) = base.posterior
            /\ Get(inference_estimates) = base.estimates

C8_Witness ==
    /\ JustRan /\ C8_Given
    /\ Len(Get(inference_times)) >= 2
    /\ \E i \in 1..2 :
          /\ RLt(prior_beta, Get(inference_posterior).rate[i])
          /\ RLt(prior_alpha, Get(inference_posterior).shape[i])

\* C9: in the local+imported engine, at every inference time t, shape_t =
\* alpha + the sum of the local counts over [t - tau, t] (no imported count),
\* and rate_t = beta + Lambda_t(local) + (1 + epsilon) * Lambda_t(imported),
\* both Lambda terms with the same kernel and window.
C9_LocalShapeWeightedRate ==
    (JustRan /\ variant = "LocImpBranchProPosterior") =>
        LET times == Get(inference_times)
            post == Get(inference_posterior)
            SI == Reverse(_serial_interval)
            tau == last_call.tau
        IN  /\ Len(post.shape) = Len(times)
            /\ Len(post.rate) = Len(times)
            /\ \A i \in 1..Len(times) :
                  /\ post.shape[i] =
                        RAdd(prior_alpha, RInt(WindowSum(cases_data, times[i], tau)))
                  /\ post.rate[i] =
                        RAdd(RAdd(prior_beta, Lambda(cases_data, SI, times[i], tau)),
                             RMul(RAdd(RInt(1), Get(epsilon)),
                                  Lambda(Get(imp_cases_data), SI, times[i], tau)))

\* an imported case inside a window, counted in the rate and not in the shape
C9_Witness ==
    /\ JustRan /\ variant = "LocImpBranchProPosterior"
    /\ Get(epsilon) = Rat(1, 2)
    /\ \E i \in 1..Len(Get(inference_times)) :
          /\ WindowSum(Get(imp_cases_data), Get(inference_times)[i], last_call.tau) > 0
          /\ RLt(RZero, Lambda(Get(imp_cases_data), Reverse(_serial_interval),
                               Get(inference_times)[i], last_call.tau))

StrictlyAscending(times) == \A i \in 1..(Len(times) - 1) : times[i] < times[i + 1]

\* the answer of simulate is one count per requested time, the i-th the
\* simulated count of day times[i], a natural number, initial_count at day 0
SimulateAligned ==
    LET call == Get(sim_call)
    IN  /\ result.status = "ok"
        /\ Len(result.rows) = Len(call.times)
        /\ \A i \in 1..Len(call.times) :
              /\ result.rows[i] = Get(incidences)[call.times[i] + 1]
              /\ result.rows[i] \in Nat
              /\ call.times[i] = 0 => result.rows[i] = call.parameters

\* C10 as stated: for any strictly ascending, duplicate-free sequence of
\* non-negative integer times, simulate(initial_count, times) returns exactly
\* len(times) counts, the i-th being the simulated count of day times[i],
\* each a non-negative integer, and the entry of day 0 is initial_count.
C10_SimulateAligned ==
    (IsSome(sim_call) /\ Get(sim_call).kind = "list"
        /\ StrictlyAscending(Get(sim_call).times)
        /\ \A i \in 1..Len(Get(sim_call).times) : Get(sim_call).times[i] >= 0)
    => SimulateAligned

\* C10 on the lists that name at least one day: the same statement holds.
C10_SimulateAlignedNonEmpty ==
    (IsSome(sim_call) /\ Get(sim_call).kind = "list"
        /\ StrictlyAscending(Get(sim_call).times)
        /\ Get(sim_call).times # <<>>
        /\ \A i \in 1..Len(Get(sim_call).times) : Get(sim_call).times[i] >= 0)
    => SimulateAligned

\* times is not in ascending order, repeats a day or names a negative day
InvalidTimes(times) ==
    \/ ~StrictlyAscending(times)
    \/ \E i \in 1..Len(times) : times[i] < 0

\* C11: simulate fails with an error, returning no counts, whenever the list
\* times is invalid: not ascending, containing a duplicate, or containing a
\* negative value.
C11_InvalidTimesRejected ==
    (IsSome(sim_call) /\ Get(sim_call).kind = "list"
        /\ InvalidTimes(Get(sim_call).times))
    => (result.status = "error" /\ result.rows = <<>>)

\* the step is a run_inference call whose tau is not a positive integer
\* within the span
InvalidTauCall ==
    \/ last_call'.op = "run_inference(float)"
    \/ /\ last_call'.op = "run_inference"
       /\ (last_call'.tau < 1 \/ last_call'.tau > series_end - series_start)

\* C12: run_inference(tau) fails with an error for every tau that is not a
\* positive integer <= the series span, and the engine's posterior state is
\* then not created or replaced.
C12_InvalidTauRejected ==
    [][InvalidTauCall => (result'.status = "error" /\ UNCHANGED post_vars)]_vars

InOpenUnitInterval(p) == RLt(RZero, p) /\ RLt(p, RInt(1))

\* C13: get_intervals(central_prob) fails with an error for every central_prob
\* outside the open interval (0,1), the endpoints 0 and 1 included, in every
\* engine variant; it returns rows only for 0 < central_prob < 1 and every
\* returned row carries the central_prob that was passed.
C13_CentralProbValidated ==
    (last_call.op = "get_intervals") =>
        IF InOpenUnitInterval(last_call.central_prob)
        THEN \A i \in 1..Len(result.rows) :
                result.rows[i].central_prob = last_call.central_prob
        ELSE result.status = "error" /\ result.rows = <<>>

\* the step is a setter call that failed
FailedSetterCall ==
    /\ last_call'.op \in {"set_epsilon", "set_serial_intervals"}
    /\ result'.status = "error"

\* C14: a set_epsilon or set_serial_intervals call that fails leaves every
\* field of the engine unchanged (epsilon, kernel(s), normalizing
\* constant(s), stored posterior), and epsilon >= -1 in every reachable state.
C14_SettersAtomic ==
    /\ [][FailedSetterCall =>
            UNCHANGED <<dash_vars, data_vars, epsilon, si_vars, post_vars>>]_vars
    /\ [](IsLocImp(variant) => RLe(RInt(-1), Get(epsilon)))

\* C15: no posterior engine ever holds a serial interval whose weights sum to
\* <= 0 (nor an empty or non-numeric one): every kernel and every candidate
\* kernel is a non-empty list of numbers of positive sum and every normalizing
\* constant is > 0.
C15_KernelSumPositive ==
    (variant \in Variants) =>
        /\ _serial_interval # <<>> /\ IsNumeric(_serial_interval)
        /\ NpSum(_serial_interval) > 0
        /\ _normalizing_const > 0
        /\ IsMultSI(variant) =>
              \A k \in 1..Len(Get(_serial_intervals)) :
                  /\ Get(_serial_intervals)[k] # <<>>
                  /\ IsNumeric(Get(_serial_intervals)[k])
                  /\ NpSum(Get(_serial_intervals)[k]) > 0
                  /\ k \in 1..Len(Get(_normalizing_consts)) =>
                        Get(_normalizing_consts)[k] > 0

\* C16: SimulationController.run(initial_count) on a controller wrapping a
\* BranchProModel returns the simulated counts aligned to the current regime,
\* one count per regime time.
C16_RunAlignedToRegime ==
    (IsSome(sim_call) /\ Get(sim_call).caller = "SimulationController.run") =>
        /\ result.status = "ok"
        /\ Len(result.rows) = Len(Get(sim_call).times)

Switched == IsSome(ctl_call) /\ Get(ctl_call).op = "switch_resolution"

\* C17: after switch_resolution(n), whatever was called before, the regime is
\* exactly n integers, the i-th (i = 0..n-1) being start + i*(end-start)/(n-1)
\* rounded to a nearest integer: non-decreasing, all within [start, end],
\* first = start and last = end when n >= 2; the time bounds are still the
\* (start, end) given at construction.
C17_RegimeEvenlySpaced ==
    Switched =>
        LET n == Get(ctl_call).num_points
            start == Get(ctl_call).bounds[1]
            end == Get(ctl_call).bounds[2]
            regime == Get(controller)._regime
        IN  /\ Len(regime) = n
            /\ \A i \in 1..n :
                  /\ regime[i] \in start..end
                  /\ i < n => regime[i] <= regime[i + 1]
                  /\ n >= 2 =>
                        2 * Abs(regime[i] * (n - 1)
                                - (start * (n - 1) + (i - 1) * (end - start)))
                            <= n - 1
            /\ n >= 2 => (regime[1] = start /\ regime[n] = end)
            /\ Get(controller)._sim_end_points = <<start, end>>

\* points that coincide after rounding, on bounds that differ
C17_Witness ==
    /\ Switched
    /\ Get(ctl_call).num_points >= 4
    /\ Get(ctl_call).bounds[1] < Get(ctl_call).bounds[2]
    /\ IsSome(sim_call)
    /\ \E i \in 1..(Get(ctl_call).num_points - 1) :
          Get(controller)._regime[i] = Get(controller)._regime[i + 1]

\* C18: constructing a BranchProModel fails, creating no model, with
\* ValueError when a list of weights sums to <= 0, with TypeError when the
\* serial interval is a bare number, and with TypeError when the initial R is
\* not an int or float (the error is that of one of the conditions that
\* hold); constructing a SimulationController on an object that is not a
\* ForwardModel fails with TypeError, creating no controller.
C18_ConstructorsReject ==
    /\ (IsSome(ctl_call) /\ Get(ctl_call).op = "BranchProModel") =>
          LET r == Get(ctl_call).initial_r
              si == Get(ctl_call).serial_interval
              bad_sum == si.kind = "list" /\ SumInts(si.items, 1..Len(si.items)) <= 0
              bad_type == si.kind = "int" \/ r.kind = "str"
          IN  (bad_sum \/ bad_type) =>
                  /\ model = None
                  /\ Get(ctl_call).outcome \in
                        (IF bad_sum THEN {"ValueError"} ELSE {})
                            \cup (IF bad_type THEN {"TypeError"} ELSE {})
    /\ (IsSome(ctl_call) /\ Get(ctl_call).op = "SimulationController"
            /\ Get(ctl_call).class # "BranchProModel") =>
          (controller = None /\ Get(ctl_call).outcome = "TypeError")

\* a list of sum 0 together with an initial R that is a str
C18_Witness ==
    /\ IsSome(ctl_call) /\ Get(ctl_call).op = "BranchProModel"
    /\ Get(ctl_call).initial_r.kind = "str"
    /\ Get(ctl_call).serial_interval = [kind |-> "list", items |-> <<0>>]
    /\ Get(ctl_call).outcome = "ValueError"

\* C19: a BranchProModel built from a serial interval given as a numeric
\* array, and simulate called with times given as a numeric array, succeed,
\* simulate returning one count per requested time; simulate raises
\* TypeError only when times is not a sequence at all (a bare integer).
C19_ArraysAccepted ==
    /\ (IsSome(ctl_call) /\ Get(ctl_call).op = "BranchProModel"
            /\ Get(ctl_call).serial_interval.kind = "ndarray"
            /\ NpSum(Get(ctl_call).serial_interval.items) > 0
            /\ Get(ctl_call).initial_r.kind # "str") =>
          (Get(ctl_call).outcome = "ok" /\ IsSome(model))
    /\ (IsSome(sim_call) /\ Get(sim_call).caller = "user") =>
          /\ Get(sim_call).kind = "ndarray" =>
                (result.status = "ok"
                    /\ Len(result.rows) = Len(Get(sim_call).times))
          /\ result = RaisedWith("TypeError") => Get(sim_call).kind = "int"

\* C20: after run_inference(tau, num_samples) on a multi-serial-interval
\* engine with K candidates the pool has K * num_samples rows, the k-th block
\* of num_samples rows drawn from the k-th candidate's posterior as
\* run_inference computes it, and one column per inference time; get_intervals
\* then returns one row per inference time.
C20_EqualWeightPool ==
    /\ (JustRan /\ IsMultSI(variant)) =>
          LET pool == Get(_inference_samples)
              num_samples == last_call.num_samples
              K == Len(Get(_serial_intervals))
          IN  /\ Len(pool) = K * num_samples
              /\ \A r \in 1..Len(pool) : Len(pool[r]) = Len(Get(inference_times))
              /\ \A k \in 1..K :
                    \A j \in 1..num_samples :
                        Get(drawn_from)[(k - 1) * num_samples + j] =
                            CandidateRun(variant, Get(_serial_intervals)[k],
                                         Get(_normalizing_consts)[k],
                                         last_call.tau).posterior
    /\ (GotIntervals /\ IsMultSI(variant)) =>
          /\ Len(result.rows) = Len(Get(inference_times))
          /\ \A i \in 1..Len(result.rows) :
                result.rows[i].time = Get(inference_times)[i]

\* two candidates, two draws each, pooled over two inference times
C20_Witness ==
    /\ GotIntervals /\ IsMultSI(variant)
    /\ Len(Get(_serial_intervals)) = 2
    /\ Len(Get(_inference_samples)) = 4
    /\ Len(result.rows) >= 2
    /\ Get(drawn_from)[1] # Get(drawn_from)[4]

\* what the single-kernel engine of the same family (base, or local+imported
\* for the combined engine) computes for kernel SI given to it as a caller
\* gives it, with the engine's data and prior
SingleEnginePosterior(SI, tau) ==
    IF IsLocImp(variant)
    THEN LocImp_run_inference(cases_data, Get(imp_cases_data), Get(epsilon),
                              cases_times, Reverse(SI), NpSum(Reverse(SI)),
                              prior_parameters, tau).posterior
    ELSE run_inference(cases_data, cases_times, Reverse(SI), NpSum(Reverse(SI)),
                       prior_parameters, tau).posterior

\* C21: in a multi-serial-interval engine the Gamma posterior (shape_t, rate_t
\* for every t) candidate k's samples are drawn from is the one the base
\* single-kernel engine computes for that candidate with the same tau, prior
\* and data, the local+imported single-kernel engine's in the combined
\* engine; with one candidate it is the single-kernel closed-form posterior.
C21_CandidatePosteriorIsSingleEngine ==
    (JustRan /\ IsMultSI(variant)) =>
        LET num_samples == last_call.num_samples
            K == Len(Candidates)
        IN  /\ \A k \in 1..K :
                  \A j \in 1..num_samples :
                      Get(drawn_from)[(k - 1) * num_samples + j] =
                          SingleEnginePosterior(Candidates[k], last_call.tau)
            /\ K = 1 =>
                  \A r \in 1..Len(Get(drawn_from)) :
                      LET closed == ConjugatePosterior(Candidates[1], last_call.tau)
                      IN  /\ Get(drawn_from)[r].shape = closed.shape
                          /\ Get(drawn_from)[r].rate = closed.rate

\* a combined engine with two candidates whose posteriors differ, the
\* imported cases entering the rate
C21_Witness ==
    /\ JustRan /\ variant = "LocImpBranchProPosteriorMultSI"
    /\ Len(Candidates) = 2
    /\ Get(epsilon) = Rat(1, 2)
    /\ Len(Get(inference_times)) >= 2
    /\ Get(drawn_from)[1] # Get(drawn_from)[Len(Get(drawn_from))]
    /\ Get(drawn_from)[1] #
          run_inference(cases_data, cases_times, Reverse(Candidates[1]),
                        NpSum(Candidates[1]), prior_parameters, last_call.tau).posterior

\* sum_{s=1..min(L,t)} SI[s]*I(t-s) / sum(SI) on the simulated days, SI[s]
\* the weight of lag s as given to the constructor
RenewalTerm(m, inc, t) ==
    LET SI == Reverse(m._serial_interval)
        n == Min2(Len(SI), t)
    IN  Rat(SumInts([s \in 1..n |-> SI[s] * inc[t - s + 1]], 1..n),
            SumInts(SI, 1..Len(SI)))

\* R(t) of a profile: the value of the pair with the greatest start-time <= t
ProfileR(new_rs, start_times, t) ==
    new_rs[SetMax({i \in 1..Len(start_times) : start_times[i] <= t})]

\* C22: the reproduction number simulate uses for day t is piecewise
\* constant, taken from the settable R-profile: set_r_profile(new_rs,
\* start_times) succeeds and every later simulate call uses for day t the
\* value of the pair with the greatest start-time <= t.
C22_RProfileUsed ==
    (IsSome(ctl_call) /\ Get(ctl_call).op = "set_r_profile") =>
        /\ sim_call = None => result.status = "ok"
        /\ (IsSome(sim_call) /\ result.status = "ok") =>
              \A t \in 1..(Len(Get(incidences)) - 1) :
                  PoissonMayDraw(
                      RMul(ProfileR(Get(ctl_call).new_rs, Get(ctl_call).start_times, t),
                           RenewalTerm(Get(model), Get(incidences), t)),
                      Get(incidences)[t + 1])

\* C22, its second part alone: a simulate call after set_r_profile draws
\* every day's count from the mean the profile's R(t) gives.
C22_SimulateFollowsProfile ==
    (IsSome(ctl_call) /\ Get(ctl_call).op = "set_r_profile"
        /\ IsSome(sim_call) /\ result.status = "ok") =>
        \A t \in 1..(Len(Get(incidences)) - 1) :
            PoissonMayDraw(
                RMul(ProfileR(Get(ctl_call).new_rs, Get(ctl_call).start_times, t),
                     RenewalTerm(Get(model), Get(incidences), t)),
                Get(incidences)[t + 1])

\* the rows the engine was constructed from, and the times they name
inc_data == Get(ctl_call).inc_data
imported_inc_data == Get(ctl_call).imported_inc_data
RowTimes(rows) == {rows[i][1] : i \in 1..Len(rows)}
FromRows == IsSome(ctl_call) /\ Get(ctl_call).op = "__init__"

\* C23: after constructing an engine from raw (time, count) rows given in any
\* order and with gaps, the stored series covers exactly the consecutive
\* integer times min(time)..max(time) in ascending order with no duplicates,
\* its length is max - min + 1, the count at every time present in the input
\* is the input count, and the count at every missing time is 0.
C23_SeriesContiguous ==
    FromRows =>
        LET lo == SetMin(RowTimes(inc_data))
            hi == SetMax(RowTimes(inc_data))
        IN  /\ Len(cases_times) = hi - lo + 1
            /\ Len(cases_data) = hi - lo + 1
            /\ \A i \in 1..Len(cases_times) : cases_times[i] = lo + i - 1
            /\ \A j \in 1..Len(inc_data) :
                  cases_data[inc_data[j][1] - lo + 1] = inc_data[j][2]
            /\ \A t \in (lo..hi) \ RowTimes(inc_data) : cases_data[t - lo + 1] = 0

\* rows out of order, a gap between them, and a non-zero count after the gap
C23_Witness ==
    /\ FromRows
    /\ Len(inc_data) >= 2
    /\ inc_data[1][1] > inc_data[2][1] + 1
    /\ inc_data[1][2] > 0
    /\ Len(cases_data) > Len(inc_data)
    /\ phase = "INFERRED"

\* the normalizing constants are the sums of the stored kernels
ConstantsAreSums ==
    /\ _normalizing_const = NpSum(_serial_interval)
    /\ IsMultSI(variant) =>
          /\ Len(Get(_normalizing_consts)) = Len(Get(_serial_intervals))
          /\ \A k \in 1..Len(Get(_serial_intervals)) :
                Get(_normalizing_consts)[k] = NpSum(Get(_serial_intervals)[k])

\* right after construction get_serial_intervals returns the constructor's
\* argument, and the constants are the sums
C24_AfterConstruction ==
    last_call.op = "__init__" =>
        /\ ConstantsAreSums
        /\ \A raw \in SessionTables, prior \in SessionPriors :
              \A serial \in (IF IsMultSI(variant) THEN SessionSerialIntervalLists
                                                  ELSE SessionSerialIntervals) :
                  \A imp_raw \in SessionImported, eps \in SessionEpsilons :
                      EngineFields(variant, raw, imp_raw, eps, serial, prior)
                          => get_serial_intervals = serial

\* a step of set_serial_intervals(x) that returns makes get_serial_intervals
\* return x and the constants the sums; a step of run_inference leaves
\* get_serial_intervals as it was
C24_Step ==
    /\ \A x \in (IF IsMultSI(variant) THEN SessionSerialIntervalLists
                                      ELSE SessionSerialIntervals) :
          (SetSerialIntervals(x, IF IsMultSI(variant) THEN 2 ELSE 1)
              /\ result'.status = "ok")
          => (get_serial_intervals' = x /\ ConstantsAreSums')
    /\ last_call'.op = "run_inference" => get_serial_intervals' = get_serial_intervals

\* C24: set_serial_intervals(x) followed by get_serial_intervals() returns x
\* in its original order (one vector for the base engine, every candidate
\* for the multi engine), as does get_serial_intervals() right after
\* construction; after construction and after every set_serial_intervals
\* each stored normalizing constant is the sum of its stored kernel;
\* run_inference leaves what get_serial_intervals returns unchanged.
C24_SerialIntervalRoundTrip ==
    /\ [](C24_AfterConstruction)
    /\ [][C24_Step]_vars

\* a kernel that is not a palindrome set after a run, on a multi engine whose
\* run had left the last candidate as the single kernel
C24_Witness ==
    /\ last_call.op = "set_serial_intervals" /\ result.status = "ok"
    /\ phase = "INFERRED"
    /\ IsMultSI(variant)
    /\ get_serial_intervals = <<<<2, 0, 1>>, <<1, 1, 1>>>>
    /\ _serial_interval = <<2, 1>>
    /\ ConstantsAreSums

Simulated == IsSome(sim_call) /\ result.status = "ok"

\* C25: simulate draws a count for every day t = 1..max(times), requested or
\* not, each from counts of days < t only; the Poisson mean of day t is
\* R * sum_{s=1..min(L,t)} SI[s]*I(t-s) / sum(SI): for t <= L the t available
\* days weighted by the first t weights, normalised by the full sum.
C25_RenewalMean ==
    Simulated =>
        LET inc == Get(incidences)
            m == Get(model)
            last == SeqMax(Get(sim_call).times)
        IN  /\ Len(inc) = last + 1
            /\ \A t \in 1..last :
                  LET mean == _normalised_daily_mean(m, t, SubSeq(inc, 1, t))
                  IN  /\ mean = RMul(m._initial_r, RenewalTerm(m, inc, t))
                      /\ mean = _normalised_daily_mean(m, t, inc)
                      /\ PoissonMayDraw(mean, inc[t + 1])

\* only the last day requested, a kernel of two weights: day 1 uses one
\* weight, day 2 both, day 3 the two days before it
C25_Witness ==
    /\ Simulated
    /\ Get(sim_call).times = <<3>>
    /\ Get(model)._serial_interval = <<2, 1>>
    /\ \A d \in 1..4 : Get(incidences)[d] > 0

\* C26: the engine applies the simulator's kernel: for every incidence
\* history, serial interval and position u >= 1 counted from the series
\* start, _infectious_individuals at 1-based index u + 1 equals
\* _normalised_daily_mean at t = u with R = 1, in the truncated region
\* u <= L and at u = L, where the two functions change branch at different
\* points.
C26_SameKernel ==
    (IsSome(ctl_call) /\ Get(ctl_call).op = "kernels") =>
        /\ result.rows[1] = result.rows[2]
        /\ result.rows[1] = RenewalTerm(Get(model), cases_data, Get(ctl_call).u)

\* u = L on a kernel of three weights, with a non-zero value
C26_Witness ==
    /\ IsSome(ctl_call) /\ Get(ctl_call).op = "kernels"
    /\ Len(_serial_interval) = 3
    /\ Get(ctl_call).u = 3
    /\ RLt(RZero, result.rows[1])

\* callback c is inside its with block, operating on the session data
Operating(c) == callbacks[c].pc \notin {"idle", "fired"}

\* no two callbacks operate on the session data at once, whoever operates
\* holds the lock, and a callback that has returned holds no lock
C27_LockHeld ==
    /\ \A c, d \in 1..MaxCallbacks : (Operating(c) /\ Operating(d)) => c = d
    /\ \A c \in 1..MaxCallbacks : Operating(c) <=> lock = Some(c)

\* the session data and app.current_df change only in a step of the callback
\* that holds the lock, and the step that ends a callback frees the lock
C27_Step ==
    /\ (session_data' # session_data \/ current_df' # current_df) =>
          \E c \in 1..MaxCallbacks :
              /\ lock = Some(c)
              /\ callbacks'[c] # callbacks[c]
              /\ \A d \in 1..MaxCallbacks \ {c} : callbacks'[d] = callbacks[d]
    /\ \A c \in 1..MaxCallbacks :
          (Operating(c) /\ callbacks'[c].pc = "idle") => lock' = None

ImportedAt(v) ==
    IF v < series_start \/ v > series_end THEN 0
    ELSE SumInts([j \in 1..Len(imported_inc_data) |->
                    IF imported_inc_data[j][1] = v THEN imported_inc_data[j][2] ELSE 0],
                 1..Len(imported_inc_data))

\* Lambda_t of the imported rows, by their recorded times
ImportedLambda(SI, t, tau) ==
    Rat(SumInts([u \in (t - tau)..t |->
                    SumInts([s \in 1..Len(SI) |-> SI[s] * ImportedAt(u - s)], 1..Len(SI))],
                (t - tau)..t),
        SumInts(SI, 1..Len(SI)))

\* C28: in the local+imported engines the imported series is re-indexed onto
\* the local series' time range: imp_cases_data has the length and the time
\* index of cases_data, imported counts at times without an imported record
\* are 0, imported records outside [local_start, local_end] are dropped, so
\* the windows of run_inference read both series at the same times.
C28_ImportedOnLocalRange ==
    (FromRows /\ IsLocImp(variant)) =>
        /\ Len(Get(imp_cases_data)) = Len(cases_data)
        /\ series_start = SetMin(RowTimes(inc_data))
        /\ series_end = SetMax(RowTimes(inc_data))
        /\ \A i \in 1..Len(cases_times) :
              Get(imp_cases_data)[i] = ImportedAt(cases_times[i])
        /\ JustRan =>
              \A i \in 1..Len(Get(inference_times)) :
                  Get(inference_posterior).rate[i] =
                      RAdd(RAdd(prior_beta,
                                Lambda(cases_data, Reverse(_serial_interval),
                                       Get(inference_times)[i], last_call.tau)),
                           RMul(RAdd(RInt(1), Get(epsilon)),
                                ImportedLambda(Reverse(_serial_interval),
                                               Get(inference_times)[i], last_call.tau)))

\* one imported record before the local range and one inside it, the latter
\* entering a window of the combined engine's run
C28_Witness ==
    /\ FromRows /\ variant = "LocImpBranchProPosteriorMultSI" /\ JustRan
    /\ \E j \in 1..Len(imported_inc_data) : imported_inc_data[j][1] < series_start
    /\ \E j \in 1..Len(imported_inc_data) :
          imported_inc_data[j][1] \in series_start..series_end
    /\ \E i \in 1..Len(Get(inference_times)) :
          RLt(RZero, ImportedLambda(Reverse(_serial_interval),
                                    Get(inference_times)[i], last_call.tau))

\* C29: extinction is absorbing in simulate: a day whose renewal mean is 0
\* draws the count 0; hence with initial_count = 0 or R = 0 every count of
\* the days >= 1 is 0, and once the counts of the last min(L, t) days before
\* a day t are all 0 (L the serial-interval length), the count of day t and
\* of every later day is 0.
C29_ExtinctionAbsorbing ==
    Simulated =>
        LET inc == Get(incidences)
            m == Get(model)
            last == SeqMax(Get(sim_call).times)
            L == Len(m._serial_interval)
        IN  /\ \A t \in 1..last :
                  _normalised_daily_mean(m, t, SubSeq(inc, 1, t)) = RZero
                      => inc[t + 1] = 0
            /\ (Get(sim_call).parameters = 0 \/ m._initial_r = RZero)
                  => \A t \in 1..last : inc[t + 1] = 0
            /\ \A t \in 1..last :
                  (\A s \in 1..Min2(L, t) : inc[t - s + 1] = 0)
                      => \A u \in t..last : inc[u + 1] = 0

\* an outbreak that grows on day 1, dies out on day 2 and stays extinct on
\* day 3, the reproduction number and the initial count being positive
C29_Witness ==
    /\ Simulated
    /\ Get(sim_call).parameters = 1
    /\ Get(model)._initial_r = RInt(2)
    /\ Get(model)._serial_interval = <<1>>
    /\ Get(incidences) = <<1, 2, 0, 0>>

====
